---- MODULE Spec2Model ----
(***************************************************************************)
(* Model of tvb.core.adapters.input_tree.InputTreeManager.                 *)
(*                                                                         *)
(* Python strings are sequences of one-character strings, so that find,    *)
(* startswith, endswith, `in`, slicing and split are computed as the code  *)
(* computes them.  Python values are tagged records.  A tree node          *)
(* (a Python dict) is a record whose DOMAIN is the set of keys present.    *)
(*                                                                         *)
(* tree is the interface tree of an adapter, the one object every call is   *)
(* handed, and declared the tree as the adapter declared it; kwargs is the *)
(* flat submission of the request being served, metadata_out the metadata  *)
(* dictionary of the operation, kwa the dictionary convert_ui_inputs       *)
(* builds; call and result hold what the last call was given and what it   *)
(* answered; loads lists the entities of the expected class that calls of  *)
(* _load_entity found, in the order of the calls, and what each call       *)
(* raised.                                                                 *)
(***************************************************************************)
EXTENDS Integers, Sequences, FiniteSets, TLC

VARIABLES loads, declared, tree, kwargs, metadata_out, kwa, call, result

vars == <<loads, declared, tree, kwargs, metadata_out, kwa, call, result>>

-----------------------------------------------------------------------------
(* Python strings *)

Min(a, b) == IF a < b THEN a ELSE b

Max(a, b) == IF a > b THEN a ELSE b

\* index normalisation of a slice bound: negative bounds count from the end
PyIdx(i, n) == IF i < 0 THEN Max(n + i, 0) ELSE Min(i, n)

\* s[i:j]
Slice(s, i, j) == SubSeq(s, PyIdx(i, Len(s)) + 1, PyIdx(j, Len(s)))

\* s[i:]
SliceFrom(s, i) == SubSeq(s, PyIdx(i, Len(s)) + 1, Len(s))

\* s[:j]
SliceTo(s, j) == SubSeq(s, 1, PyIdx(j, Len(s)))

\* s.startswith(p)
StartsWith(s, p) == Len(p) <= Len(s) /\ SubSeq(s, 1, Len(p)) = p

\* s.endswith(p)
EndsWith(s, p) == Len(p) <= Len(s) /\ SubSeq(s, Len(s) - Len(p) + 1, Len(s)) = p

\* the 0-based offsets at which sub occurs in s
Occurrences(s, sub) ==
    { i \in 0..(Len(s) - Len(sub)) : SubSeq(s, i + 1, i + Len(sub)) = sub }

\* s.find(sub): the first offset, or -1
Find(s, sub) ==
    IF Occurrences(s, sub) = {} THEN -1
    ELSE CHOOSE i \in Occurrences(s, sub) : \A j \in Occurrences(s, sub) : i <= j

\* sub in s
Contains(s, sub) == Occurrences(s, sub) # {}

\* s.replace(c, '') for a one-character c
RECURSIVE RemoveChar(_, _)
RemoveChar(s, c) ==
    IF Len(s) = 0 THEN <<>>
    ELSE IF Head(s) = c THEN RemoveChar(Tail(s), c)
    ELSE <<Head(s)>> \o RemoveChar(Tail(s), c)

\* s.split(c) for a one-character c: a sequence of strings, never empty
RECURSIVE Split(_, _)
Split(s, c) ==
    LET at == Find(s, <<c>>)
    IN  IF at < 0 THEN <<s>>
        ELSE <<SliceTo(s, at)>> \o Split(SliceFrom(s, at + 1), c)

-----------------------------------------------------------------------------
(* Python values *)

\* every value has the same fields, so that any two values compare:
\* t the type, s the characters of a string, n the number of an int or a
\* float, b the truth value of a bool, l the items of a list
PyNone == [t |-> "none", s |-> <<>>, n |-> 0, b |-> FALSE, l |-> <<>>]

PyStr(chars) == [PyNone EXCEPT !.t = "str", !.s = chars]

PyInt(i) == [PyNone EXCEPT !.t = "int", !.n = i]

PyFloat(x) == [PyNone EXCEPT !.t = "float", !.n = x]

PyBool(b) == [PyNone EXCEPT !.t = "bool", !.b = b]

PyList(items) == [PyNone EXCEPT !.t = "list", !.l = items]

IsStr(x) == x.t = "str"

IsNumber(x) == x.t \in {"int", "float", "bool"}

\* the number a numeric value compares as (True is 1, False is 0)
NumberOf(x) == IF x.t = "bool" THEN (IF x.b THEN 1 ELSE 0) ELSE x.n

\* a == b
PyEq(a, b) ==
    IF IsNumber(a) /\ IsNumber(b) THEN NumberOf(a) = NumberOf(b) ELSE a = b

\* x in c, for c a list or a string
PyIn(x, c) ==
    IF c.t = "list" THEN \E i \in 1..Len(c.l) : PyEq(c.l[i], x)
    ELSE c.t = "str" /\ x.t = "str" /\ Contains(c.s, x.s)

\* dict helpers: a dict is a function, its keys are its DOMAIN
SetKey(d, k, x) == (k :> x) @@ d

DelKey(d, k) == [f \in DOMAIN d \ {k} |-> d[f]]

Has(d, k) == k \in DOMAIN d

EmptyDict == [k \in {} |-> PyNone]

\* an assignment: the value is computed once and then named in the body
Bind(value, Body(_)) == CHOOSE out \in { Body(x) : x \in {value} } : TRUE

\* param.get(key) is not None, for the two list-valued keys: each holds
\* PyList(nodes) or PyNone
HasList(p, k) == Has(p, k) /\ p[k] # PyNone

-----------------------------------------------------------------------------
(* Keywords of the flat-name grammar *)

KEYWORD_PARAMS == <<"_", "p", "a", "r", "a", "m", "e", "t", "e", "r", "s", "_">>

KEYWORD_SEPARATOR == <<"_">>

KEYWORD_OPTION == <<"o", "p", "t", "i", "o", "n", "_">>

TYPE_SELECT == "select"

\* the key of a portlet's dynamic parameter
KEY_DYNAMIC == "dynamic"

TYPE_MULTIPLE == "selectMultiple"

TYPE_DICT == "dict"

TYPE_INT == "int"

TYPE_FLOAT == "float"

TYPE_BOOL == "bool"

TYPE_STR == "str"

TYPE_LIST == "list"

TYPE_ARRAY == "array"

TYPE_UPLOAD == "upload"

STATIC_ACCEPTED_TYPES ==
    {TYPE_SELECT, TYPE_MULTIPLE, TYPE_DICT, TYPE_INT, TYPE_FLOAT, TYPE_BOOL,
     TYPE_STR, TYPE_LIST, TYPE_ARRAY, TYPE_UPLOAD}

-----------------------------------------------------------------------------
(* Conversions of Python values *)

DigitChars == <<"0", "1", "2", "3", "4", "5", "6", "7", "8", "9">>

IsDigit(c) == \E d \in 1..10 : DigitChars[d] = c

DigitValue(c) == (CHOOSE d \in 1..10 : DigitChars[d] = c) - 1

\* the number written by a string of digits
RECURSIVE DigitsValue(_)
DigitsValue(s) ==
    IF Len(s) = 0 THEN 0
    ELSE 10 * DigitsValue(SubSeq(s, 1, Len(s) - 1)) + DigitValue(s[Len(s)])

\* the decimal literals of the model: digits, with an optional minus sign
IsIntLiteral(s) ==
    LET digits == IF Len(s) > 0 /\ s[1] = "-" THEN Tail(s) ELSE s
    IN  Len(digits) > 0 /\ \A i \in 1..Len(digits) : IsDigit(digits[i])

IntLiteralValue(s) ==
    IF s[1] = "-" THEN 0 - DigitsValue(Tail(s)) ELSE DigitsValue(s)

RECURSIVE NatToStr(_)
NatToStr(n) ==
    IF n < 10 THEN <<DigitChars[n + 1]>>
    ELSE NatToStr(n \div 10) \o <<DigitChars[(n % 10) + 1]>>

IntToStr(n) == IF n < 0 THEN <<"-">> \o NatToStr(0 - n) ELSE NatToStr(n)

\* str(x); the items of a list are written by str as well
RECURSIVE PyStrOf(_)
RECURSIVE JoinStrOf(_)

JoinStrOf(items) ==
    IF Len(items) = 0 THEN <<>>
    ELSE PyStrOf(Head(items))
         \o (IF Len(items) > 1 THEN <<",", " ">> ELSE <<>>)
         \o JoinStrOf(Tail(items))

PyStrOf(x) ==
    CASE x.t = "str" -> x.s
      [] x.t = "int" -> IntToStr(x.n)
      [] x.t = "float" -> IntToStr(x.n) \o <<".", "0">>
      [] x.t = "bool" -> IF x.b THEN <<"T", "r", "u", "e">>
                         ELSE <<"F", "a", "l", "s", "e">>
      [] x.t = "none" -> <<"N", "o", "n", "e">>
      [] x.t = "dict" -> <<"{">> \o JoinStrOf(x.l) \o <<"}">>
      [] OTHER -> <<"[">> \o JoinStrOf(x.l) \o <<"]">>

Failed == [ok |-> FALSE, val |-> PyNone]

Done(x) == [ok |-> TRUE, val |-> x]

\* int(x): ValueError on a string that is no literal, TypeError on None or
\* a list
int_of(x) ==
    CASE x.t = "str" ->
             IF IsIntLiteral(x.s) THEN Done(PyInt(IntLiteralValue(x.s))) ELSE Failed
      [] x.t \in {"int", "float", "bool"} -> Done(PyInt(NumberOf(x)))
      [] OTHER -> Failed

\* float(x)
float_of(x) ==
    CASE x.t = "str" ->
             IF IsIntLiteral(x.s) THEN Done(PyFloat(IntLiteralValue(x.s))) ELSE Failed
      [] x.t \in {"int", "float", "bool"} -> Done(PyFloat(NumberOf(x)))
      [] OTHER -> Failed

\* bool(x): the truth value, which every object has
bool_of(x) ==
    CASE x.t = "str" -> Len(x.s) > 0
      [] x.t \in {"int", "float"} -> x.n # 0
      [] x.t = "bool" -> x.b
      [] x.t = "none" -> FALSE
      [] x.t \in {"list", "dict"} -> Len(x.l) > 0
      [] OTHER -> TRUE

\* json.loads(x) on the documents of the model: an integer, or a list of
\* integers in brackets
RECURSIVE AllIntLiterals(_)
AllIntLiterals(parts) ==
    Len(parts) = 0 \/ (IsIntLiteral(Head(parts)) /\ AllIntLiterals(Tail(parts)))

json_loads(x) ==
    IF x.t # "str" THEN Failed
    ELSE IF IsIntLiteral(x.s) THEN Done(PyInt(IntLiteralValue(x.s)))
    ELSE IF Len(x.s) >= 2 /\ x.s[1] = "[" /\ x.s[Len(x.s)] = "]"
    THEN LET inner == SubSeq(x.s, 2, Len(x.s) - 1)
             parts == IF Len(inner) = 0 THEN <<>> ELSE Split(inner, ",")
         IN  IF AllIntLiterals(parts)
             THEN Done(PyList([i \in 1..Len(parts) |-> PyInt(IntLiteralValue(parts[i]))]))
             ELSE Failed
    ELSE Failed

-----------------------------------------------------------------------------
(* Reading the parent and the option out of a flat name *)

\* _compute_submit_option_select: a string becomes the list of its
\* comma-separated parts, brackets dropped; anything else is returned as is
compute_submit_option_select(submitted_option) ==
    IF submitted_option.t = "str"
    THEN LET parts == Split(RemoveChar(RemoveChar(submitted_option.s, "["), "]"), ",")
         IN  PyList([i \in 1..Len(parts) |-> PyStr(parts[i])])
    ELSE submitted_option

\* lines 223-225: the option read out of the name: what follows the first
\* "option_" (find is -1 when there is none), cut before the next separator
\* (without one, the slice [:-1] drops the last character)
option_of_name(att_name) ==
    LET option == SliceFrom(att_name, Find(att_name, KEYWORD_OPTION) + 7)
    IN  SliceTo(option, Find(option, KEYWORD_SEPARATOR))

\* _is_parent_not_submitted: val is the answer, err tells that
\* kwargs[parent_name] raised KeyError or that `option in` met a value that
\* is neither a list nor a string
is_parent_not_submitted(row, kw) ==
    LET att_name == row.name
        parent_name == SliceTo(att_name, Find(att_name, KEYWORD_PARAMS))
        submitted_option == compute_submit_option_select(kw[parent_name])
    IN  IF ~Contains(att_name, KEYWORD_PARAMS) THEN [val |-> FALSE, err |-> FALSE]
        ELSE IF ~Has(kw, parent_name) THEN [val |-> TRUE, err |-> TRUE]
        ELSE IF ~bool_of(submitted_option) THEN [val |-> TRUE, err |-> FALSE]
        ELSE IF submitted_option.t \notin {"list", "str"}
        THEN [val |-> TRUE, err |-> TRUE]
        ELSE [val |-> ~PyIn(PyStr(option_of_name(att_name)), submitted_option),
              err |-> FALSE]


\* the mutant of after_cleaning that deletes without being asked to
after_cleaning_always(kw, keys_to_remove, perform_clean) ==
    [k \in DOMAIN kw \ keys_to_remove |-> kw[k]]

\* lines 200-208: the keys are deleted when cleaning is asked for
after_cleaning(kw, keys_to_remove, perform_clean) ==
    IF perform_clean THEN [k \in DOMAIN kw \ keys_to_remove |-> kw[k]] ELSE kw

\* lines 192-213, the loop over the submitted options: the first option
\* whose proposed name is a submitted key answers; with perform_clean the
\* keys of the same field under other options are deleted on the way
RECURSIVE find_among_options(_, _, _, _, _)
find_among_options(kw, options, many, flat_name, perform_clean) ==
    IF Len(options) = 0 THEN [kw |-> kw, name |-> PyNone, err |-> FALSE, warned |-> FALSE]
    ELSE LET at == Find(flat_name, KEYWORD_PARAMS)
             prefix == Slice(flat_name, 0, at + 12)
             sufix == SliceFrom(flat_name, at + 12)
             submitted_option == PyStrOf(Head(options))
             datatype_like_submit ==
                 ~StartsWith(sufix, KEYWORD_OPTION \o submitted_option)
             proposed_name ==
                 IF datatype_like_submit
                 THEN prefix \o KEYWORD_OPTION \o submitted_option
                      \o KEYWORD_SEPARATOR \o sufix
                 ELSE flat_name
             keys_to_remove ==
                 { submit_key \in DOMAIN kw :
                       /\ StartsWith(submit_key, prefix \o KEYWORD_OPTION)
                       /\ EndsWith(submit_key, sufix)
                       /\ submit_key # proposed_name }
             cleaned == after_cleaning(kw, keys_to_remove, perform_clean)
             warned == perform_clean /\ datatype_like_submit /\ many
         IN  Bind(cleaned, LAMBDA after :
                 IF Has(after, proposed_name)
                 THEN [kw |-> after, name |-> PyStr(proposed_name), err |-> FALSE,
                       warned |-> warned]
                 ELSE Bind(find_among_options(after, Tail(options), many,
                                              flat_name, perform_clean),
                           LAMBDA rest : [rest EXCEPT !.warned = @ \/ warned]))

\* _find_field_submitted_name: name is the submitted key of flat_name or
\* None, kw the submission after the cleaning, err tells that
\* submited_kwargs[parent_name] raised KeyError or that the submitted value
\* cannot be iterated
find_field_submitted_name(kw, flat_name, perform_clean) ==
    LET parent_name == SliceTo(flat_name, Find(flat_name, KEYWORD_PARAMS))
        submitted_options == compute_submit_option_select(kw[parent_name])
        answer(name, err) == [kw |-> kw, name |-> name, err |-> err, warned |-> FALSE]
    IN  IF ~Contains(flat_name, KEYWORD_PARAMS)
        THEN answer(IF Has(kw, flat_name) THEN PyStr(flat_name) ELSE PyNone, FALSE)
        ELSE IF ~Has(kw, parent_name) THEN answer(PyNone, TRUE)
        ELSE IF submitted_options.t # "list" THEN answer(PyNone, TRUE)
        ELSE find_among_options(kw, submitted_options.l, Len(submitted_options.l) > 1,
                                flat_name, perform_clean)

-----------------------------------------------------------------------------
(* Dictionary fields *)

\* a Python dict held as a value: its (key, value) pairs in insertion order
PyDict(pairs) == [PyNone EXCEPT !.t = "dict", !.l = pairs]

\* d[key] = val
DictSet(pairs, key, val) ==
    IF \E i \in 1..Len(pairs) : pairs[i].l[1] = key
    THEN [i \in 1..Len(pairs) |->
              IF pairs[i].l[1] = key THEN PyList(<<key, val>>) ELSE pairs[i]]
    ELSE Append(pairs, PyList(<<key, val>>))

\* the orders in which `for key in kwargs` may meet the keys: one
\* enumeration of the keys and its reverse
RECURSIVE Enumerate(_)
Enumerate(keys) ==
    IF keys = {} THEN <<>>
    ELSE LET k == CHOOSE k \in keys : TRUE
         IN  <<k>> \o Enumerate(keys \ {k})

Reverse(q) == [i \in 1..Len(q) |-> q[Len(q) + 1 - i]]

KeyOrders == {"forward", "backward"}

KeysInOrder(kw, order) ==
    IF order = "forward" THEN Enumerate(DOMAIN kw) ELSE Reverse(Enumerate(DOMAIN kw))

\* what follows the last "parameters_" of a key: key.split(...)[-1]
AfterLastMarker(key) ==
    LET marker == Tail(KEYWORD_PARAMS)
        found == Occurrences(key, marker)
    IN  IF found = {} THEN key
        ELSE SliceFrom(key, (CHOOSE i \in found : \A j \in found : j <= i)
                            + Len(marker))

\* string2array(string, split_char, dtype): the numbers between the split
\* characters; a part that is no number fails
string2array(string, split_char, dtype) ==
    LET parts == Split(string, split_char)
    IN  IF AllIntLiterals(parts)
        THEN Done(PyList([i \in 1..Len(parts) |->
                 IF dtype = PyStr(<<"i", "n", "t">>)
                 THEN PyInt(IntLiteralValue(parts[i]))
                 ELSE PyFloat(IntLiteralValue(parts[i]))]))
        ELSE Failed

ELEMENT_FLOAT == PyStr(<<"f", "l", "o", "a", "t">>)

ELEMENT_INT == PyStr(<<"i", "n", "t">>)

ELEMENT_STR == PyStr(<<"s", "t", "r">>)

ELEMENT_ARRAY == PyStr(<<"a", "r", "r", "a", "y">>)

\* lines 159-165: the value of one entry; with an element type the raw value
\* is spliced into a call of that type, which takes a string
dictionary_value(row, raw) ==
    IF Has(row, "elementType")
    THEN IF raw.t # "str" THEN Failed
         ELSE IF row.elementType = ELEMENT_ARRAY
         THEN string2array(raw.s, " ", ELEMENT_FLOAT)
         ELSE IF row.elementType = ELEMENT_FLOAT THEN float_of(raw)
         ELSE IF row.elementType = ELEMENT_INT THEN int_of(raw)
         ELSE IF row.elementType = ELEMENT_STR THEN Done(raw)
         ELSE Failed
    ELSE Done(PyStr(PyStrOf(raw)))

\* lines 156-166 over the keys still to visit
RECURSIVE dictionary_entries(_, _, _, _)
dictionary_entries(row, kw, keys, acc) ==
    IF Len(keys) = 0 \/ ~acc.ok THEN acc
    ELSE LET key == Head(keys)
             val == dictionary_value(row, kw[key])
         IN  IF Contains(key, row.name) /\ row.name # key
             THEN Bind(val, LAMBDA v :
                  Bind([ok |-> v.ok,
                        result_dict |-> DictSet(acc.result_dict,
                                                PyStr(AfterLastMarker(key)), v.val),
                        taken_keys |-> Append(acc.taken_keys, key)],
                       LAMBDA next : dictionary_entries(row, kw, Tail(keys), next)))
             ELSE dictionary_entries(row, kw, Tail(keys), acc)

\* _get_dictionary: ok is FALSE when the call raises
get_dictionary(row, kw, order) ==
    LET parent == is_parent_not_submitted(row, kw)
        empty == [ok |-> TRUE, result_dict |-> <<>>, taken_keys |-> <<>>]
    IN  Bind(parent, LAMBDA p :
            IF p.err THEN [empty EXCEPT !.ok = FALSE]
            ELSE IF p.val THEN empty
            ELSE Bind(KeysInOrder(kw, order),
                      LAMBDA keys : dictionary_entries(row, kw, keys, empty)))


-----------------------------------------------------------------------------
(* The entity store *)

TYPE_SURFACE == "tvb.datatypes.surfaces.Surface"

TYPE_CONNECTIVITY == "tvb.datatypes.connectivity.Connectivity"

KnownClasses == {TYPE_SURFACE, TYPE_CONNECTIVITY}

DEFAULT_SUBJECT == <<"J", "o", "h", "n", " ", "D", "o", "e">>

\* what load_entity_by_gid finds: two surfaces with a burst, a tag and a
\* subject of their own, a connectivity that has none of them set, and one
\* that has a tag and the subject of the first surface
Store ==
    (<<"g">> :> [classes |-> {TYPE_SURFACE}, fk_parent_burst |-> PyInt(3),
                 user_tag_1 |-> PyStr(<<"t">>), subject |-> <<"A">>,
                 display_name |-> <<"S">>, visible |-> TRUE])
    @@ (<<"h">> :> [classes |-> {TYPE_CONNECTIVITY}, fk_parent_burst |-> PyNone,
                    user_tag_1 |-> PyNone, subject |-> DEFAULT_SUBJECT,
                    display_name |-> <<"C">>, visible |-> TRUE])
    @@ (<<"k">> :> [classes |-> {TYPE_SURFACE}, fk_parent_burst |-> PyInt(4),
                    user_tag_1 |-> PyStr(<<"u">>), subject |-> <<"B">>,
                    display_name |-> <<"S">>, visible |-> TRUE])
    @@ (<<"j">> :> [classes |-> {TYPE_CONNECTIVITY}, fk_parent_burst |-> PyNone,
                    user_tag_1 |-> PyStr(<<"w">>), subject |-> <<"A">>,
                    display_name |-> <<"C">>, visible |-> TRUE])

-----------------------------------------------------------------------------
(* Array fields *)

KEY_EQUATION == <<"e", "q", "u", "a", "t", "i", "o", "n">>

KEY_FOCAL_POINTS == <<"f", "o", "c", "a", "l", "_", "p", "o", "i", "n", "t", "s">>

KEY_SURFACE_GID == <<"s", "u", "r", "f", "a", "c", "e", "_", "g", "i", "d">>

QUANTIFIER_MANUAL == "manual"

QUANTIFIER_UPLOAD == "upload"

\* the files an upload path may name, by their text
Files == (<<"p">> :> <<"1", " ", "2">>)

\* d.get(key) on a dict value
dict_get(d, key) ==
    IF \E i \in 1..Len(d.l) : d.l[i].l[1] = PyStr(key)
    THEN d.l[CHOOSE i \in 1..Len(d.l) : d.l[i].l[1] = PyStr(key)].l[2]
    ELSE PyNone

\* the equation classes that can be imported, by their path
EquationClasses == { <<"e", ".", "L">> }

\* surface.compute_equation(focal_points, equation): one value for every
\* focal point
compute_equation(focal_points, equation) ==
    PyList([i \in 1..Len(focal_points.l) |-> PyFloat(NumberOf(focal_points.l[i]))])

\* lines 416-432 on the dictionary the submitted value evaluates to: without
\* an equation type the answer is []; a class that cannot be imported, a
\* missing key, focal points that are no JSON and an identifier that names
\* no surface raise, and the handler at lines 433-435 answers None
equation_array(input_data) ==
    LET equation_type == dict_get(input_data, <<"e", "l", "e", "m", "e", "n", "t", "T", "y", "p", "e">>)
        equation == dict_get(input_data, KEY_EQUATION)
        focal_points == json_loads(dict_get(input_data, KEY_FOCAL_POINTS))
        surface_gid == dict_get(input_data, KEY_SURFACE_GID)
    IN  IF equation_type = PyNone THEN Done(PyList(<<>>))
        ELSE IF equation_type.t # "str" \/ equation_type.s \notin EquationClasses
        THEN Done(PyNone)
        ELSE IF equation = PyNone \/ ~focal_points.ok \/ focal_points.val.t # "list"
        THEN Done(PyNone)
        ELSE IF \/ surface_gid.t # "str"
                \/ ~Has(Store, surface_gid.s)
                \/ TYPE_SURFACE \notin Store[surface_gid.s].classes
        THEN Done(PyNone)
        ELSE Done(compute_equation(focal_points.val, equation))

\* _convert_to_array.  A value whose text names the three equation keys is
\* evaluated: a dictionary goes on to the equation, and a text of this
\* model is no dictionary literal, so that its evaluation raises and the
\* handler at lines 433-435 answers None
convert_to_array(input_data, row) ==
    LET text == PyStrOf(input_data)
        dtype == IF Has(row, "elementType") THEN row.elementType ELSE PyNone
    IN  IF /\ Contains(text, KEY_EQUATION)
           /\ Contains(text, KEY_FOCAL_POINTS)
           /\ Contains(text, KEY_SURFACE_GID)
        THEN IF input_data.t = "dict" THEN equation_array(input_data) ELSE Done(PyNone)
        ELSE IF Has(row, "quantifier") /\ row.quantifier = QUANTIFIER_MANUAL
        THEN string2array(text, ",", dtype)
        ELSE IF Has(row, "quantifier") /\ row.quantifier = QUANTIFIER_UPLOAD
        THEN IF input_data.t = "str" /\ Has(Files, input_data.s)
             THEN string2array(Files[input_data.s], " ", dtype)
             ELSE Failed
        ELSE Done(PyNone)

\* value < bound, as Python 2 orders values: None is below every value
PyLess(a, b) ==
    IF a.t = "none" THEN b.t # "none"
    ELSE IF b.t = "none" THEN FALSE
    ELSE NumberOf(a) < NumberOf(b)

\* _validate_range_for_value_input: TRUE when the warning is logged
value_out_of_range(value, row) ==
    PyLess(value, row.minValue) \/ PyLess(row.maxValue, value)

RECURSIVE SmallestOf(_)
SmallestOf(items) ==
    IF Len(items) = 1 THEN Head(items)
    ELSE LET rest == SmallestOf(Tail(items))
         IN  IF PyLess(Head(items), rest) THEN Head(items) ELSE rest

RECURSIVE LargestOf(_)
LargestOf(items) ==
    IF Len(items) = 1 THEN Head(items)
    ELSE LET rest == LargestOf(Tail(items))
         IN  IF PyLess(rest, Head(items)) THEN Head(items) ELSE rest

\* the mutant of validate_range_for_array_input that rejects an array out of
\* its range, as the check did before it was softened to a warning
validate_range_for_array_input_raising(array, row) ==
    IF array.t = "list" /\ Len(array.l) = 0 THEN [ok |-> FALSE, warned |-> FALSE]
    ELSE LET min_val == IF array.t = "list" THEN SmallestOf(array.l) ELSE array
             max_val == IF array.t = "list" THEN LargestOf(array.l) ELSE array
         IN  [ok |-> ~(PyLess(min_val, row.minValue) \/ PyLess(row.maxValue, max_val)),
              warned |-> FALSE]

\* _validate_range_for_array_input: numpy.min of an empty array raises, of
\* None it is None; warned tells that the warning is logged
validate_range_for_array_input(array, row) ==
    IF array.t = "list" /\ Len(array.l) = 0 THEN [ok |-> FALSE, warned |-> FALSE]
    ELSE LET min_val == IF array.t = "list" THEN SmallestOf(array.l) ELSE array
             max_val == IF array.t = "list" THEN LargestOf(array.l) ELSE array
         IN  [ok |-> TRUE,
              warned |-> PyLess(min_val, row.minValue) \/ PyLess(row.maxValue, max_val)]

-----------------------------------------------------------------------------
(* Stored entities *)

PyEntity(gid) == [PyNone EXCEPT !.t = "entity", !.s = gid]

InitialMetadata == [subject |-> PyStr(DEFAULT_SUBJECT)]

\* lines 480-485: the burst and the first tag of the entity are noted
linked_metadata(entity, meta_out) ==
    LET burst == IF bool_of(entity.fk_parent_burst)
                 THEN SetKey(meta_out, "burst", entity.fk_parent_burst)
                 ELSE meta_out
    IN  IF bool_of(entity.user_tag_1) /\ ~Has(burst, "tag_1")
        THEN SetKey(burst, "tag_1", entity.user_tag_1)
        ELSE burst

\* lines 487-492: the subject of the entity joins the subjects noted so far
merged_metadata(entity, meta_out) ==
    LET linked == linked_metadata(entity, meta_out)
        current_subject == linked.subject.s
        known == Split(current_subject, ",")
    IN  IF current_subject = DEFAULT_SUBJECT
        THEN SetKey(linked, "subject", PyStr(entity.subject))
        ELSE IF /\ entity.subject # current_subject
                /\ \A i \in 1..Len(known) : known[i] # entity.subject
        THEN SetKey(linked, "subject",
                    PyStr(current_subject \o <<",">> \o entity.subject))
        ELSE linked

\* entity.<field>, for the fields the model's rows name
field_of(entity, field) ==
    CASE field = "subject" -> Done(PyStr(entity.subject))
      [] field = "user_tag_1" -> Done(entity.user_tag_1)
      [] field = "fk_parent_burst" -> Done(entity.fk_parent_burst)
      [] OTHER -> Failed

\* a filter chain is the list of its conditions, each a field of the
\* datatype, an operation and a value
Condition(field, operation, value) ==
    PyList(<<PyStr(<<field>>), PyStr(<<operation>>), value>>)

FILTER_SUBJECT == "datatype_class.subject"

FILTER_VISIBLE == "datatype_class.visible"

\* get_python_filter_equivalent: every condition of the chain holds of the
\* entity
passes_filter(dt_filter, entity) ==
    \A i \in 1..Len(dt_filter.l) :
        LET condition == dt_filter.l[i].l
            value == IF condition[1].s = <<FILTER_SUBJECT>> THEN PyStr(entity.subject)
                     ELSE IF condition[1].s = <<FILTER_VISIBLE>>
                     THEN PyBool(entity.visible)
                     ELSE PyNone
        IN  IF condition[2].s = <<"==">> THEN PyEq(value, condition[3])
            ELSE ~PyEq(value, condition[3])

\* lines 513-518: the entities of the store have no shape, so the method
\* is handed every submitted key that starts with <name>_<parameters_prefix>;
\* what the method answers is kept as the call itself
method_call(row, gid, kw, order) ==
    LET start == row.name \o <<"_">> \o row.parameters_prefix
        keys == SelectSeq(KeysInOrder(kw, order), LAMBDA k : StartsWith(k, start))
    IN  [PyNone EXCEPT !.t = "call", !.s = gid,
                       !.l = [i \in 1..Len(keys) |-> PyList(<<PyStr(keys[i]), kw[keys[i]]>>)]]

\* _load_entity: raised is "none", the InvalidParameterException it raises
\* itself or "Exception" for any other; metadata is the caller's metadata_out afterwards
load_entity(row, datatype_gid, kw, meta_out, order) ==
    LET found == datatype_gid.t = "str" /\ Has(Store, datatype_gid.s)
        entity == Store[datatype_gid.s]
        merged == merged_metadata(entity, meta_out)
        answer(raised, value, metadata) ==
            [raised |-> raised, result |-> value, metadata |-> metadata]
        label_error == IF Has(row, "label") THEN "InvalidParameterException"
                       ELSE "Exception"
        field == field_of(entity, row.field)
    IN  IF ~found
        THEN IF Has(row, "required") /\ row.required
             THEN answer(label_error, PyNone, meta_out)
             ELSE answer("none", PyNone, meta_out)
        ELSE IF row.type \notin KnownClasses
        THEN answer("Exception", PyNone, meta_out)
        ELSE IF row.type \notin entity.classes
        THEN answer(label_error, PyNone, meta_out)
        ELSE IF ~Has(meta_out, "subject")
        THEN answer("Exception", PyNone, linked_metadata(entity, meta_out))
        ELSE IF Has(row, "conditions") /\ row.conditions # PyNone
                /\ ~passes_filter(row.conditions, entity)
        THEN answer(label_error, PyNone, merged)
        ELSE IF Has(row, "field") /\ ~field.ok
        THEN answer("Exception", PyNone, merged)
        ELSE IF Has(row, "python_method")
        THEN IF Has(row, "parameters_prefix")
             THEN answer("none", method_call(row, datatype_gid.s, kw, order), merged)
             ELSE answer("Exception", PyNone, merged)
        ELSE IF Has(row, "field") THEN answer("none", field.val, merged)
        ELSE answer("none", PyEntity(datatype_gid.s), merged)

-----------------------------------------------------------------------------
(* Naming and flattening *)

\* the mutant of form_prefix that forgets the option marker
form_prefix_no_marker(input_param, prefix, option_prefix) ==
    LET given == prefix # PyNone /\ prefix.s # <<>>
        p0 == IF given THEN prefix.s ELSE <<>>
        p1 == IF given /\ ~EndsWith(p0, KEYWORD_SEPARATOR)
              THEN p0 \o KEYWORD_SEPARATOR ELSE p0
        p2 == p1 \o input_param \o KEYWORD_PARAMS
    IN  IF option_prefix # PyNone
        THEN p2 \o option_prefix.s \o KEYWORD_SEPARATOR
        ELSE p2

form_prefix(input_param, prefix, option_prefix) ==
    LET given == prefix # PyNone /\ prefix.s # <<>>
        p0 == IF given THEN prefix.s ELSE <<>>
        p1 == IF given /\ ~EndsWith(p0, KEYWORD_SEPARATOR)
              THEN p0 \o KEYWORD_SEPARATOR ELSE p0
        p2 == p1 \o input_param \o KEYWORD_PARAMS
    IN  IF option_prefix # PyNone
        THEN p2 \o KEYWORD_OPTION \o option_prefix.s \o KEYWORD_SEPARATOR
        ELSE p2

\* lines 296-304 of flatten: the copy of the node that goes to the flat list
flat_row(param, prefix) ==
    LET stripped == SetKey(SetKey(param, "attributes", PyNone), "options", PyNone)
    IN  IF prefix # PyNone /\ Has(param, "type")
        THEN SetKey(stripped, "name", prefix.s \o param.name)
        ELSE stripped

RECURSIVE flatten(_, _)
RECURSIVE flatten_options(_, _, _)

\* the loop of lines 307-312 over the options of the node named param_name
flatten_options(options, param_name, prefix) ==
    IF Len(options) = 0 THEN <<>>
    ELSE LET option == Head(options)
             extra_list ==
                 IF HasList(option, "attributes")
                 THEN flatten(option.attributes.l,
                              PyStr(form_prefix(param_name, prefix, option.value)))
                 ELSE <<>>
         IN  extra_list \o flatten_options(Tail(options), param_name, prefix)

flatten(params_list, prefix) ==
    IF Len(params_list) = 0 THEN <<>>
    ELSE LET param == Head(params_list)
             from_options ==
                 IF HasList(param, "options")
                 THEN flatten_options(param.options.l, param.name, prefix)
                 ELSE <<>>
             from_attributes ==
                 IF HasList(param, "attributes")
                 THEN flatten(param.attributes.l,
                              PyStr(form_prefix(param.name, prefix, PyNone)))
                 ELSE <<>>
         IN  <<flat_row(param, prefix)>> \o from_options \o from_attributes
                 \o flatten(Tail(params_list), prefix)

RECURSIVE prepare_param_names(_, _, _)

\* one iteration of the loop of prepare_param_names (lines 331-354)
prepare_param(param, prefix, add_option_prefix) ==
    LET renamed == prefix # PyNone /\ Has(param, "type")
        new_name == IF renamed THEN prefix.s \o param.name ELSE param.name
        p1 == IF renamed THEN SetKey(param, "name", new_name) ELSE param
        p2 == IF (~Has(param, "type") \/ param.type \in STATIC_ACCEPTED_TYPES)
                  /\ HasList(param, "options")
              THEN SetKey(p1, "options",
                       PyList(prepare_param_names(param.options.l,
                           PyStr(form_prefix(param.name, prefix, PyNone)),
                           Has(param, "type")
                               /\ param.type \in {TYPE_MULTIPLE, TYPE_SELECT})))
              ELSE p1
        option_prefix == IF add_option_prefix
                         THEN PyStr(prefix.s \o KEYWORD_OPTION \o param.value.s
                                        \o KEYWORD_SEPARATOR)
                         ELSE prefix
        new_prefix == IF Has(param, "type") /\ param.type = TYPE_DICT
                      THEN PyStr(new_name \o KEYWORD_PARAMS)
                      ELSE option_prefix
    IN  IF HasList(param, "attributes")
        THEN SetKey(p2, "attributes",
                    PyList(prepare_param_names(param.attributes.l, new_prefix, FALSE)))
        ELSE p2

prepare_param_names(attributes_list, prefix, add_option_prefix) ==
    IF Len(attributes_list) = 0 THEN <<>>
    ELSE <<prepare_param(Head(attributes_list), prefix, add_option_prefix)>>
             \o prepare_param_names(Tail(attributes_list), prefix, add_option_prefix)


-----------------------------------------------------------------------------
(* Input trees: the nested dictionaries the adapters hand to the manager *)

Leaf(name, type, default, required) ==
    [name |-> name, label |-> name, type |-> type, default |-> default,
     required |-> required]

LeafNoDefault(name, type, required) ==
    [name |-> name, label |-> name, type |-> type, required |-> required]

Untyped(name) == [name |-> name]

WithOptions(node, options) == SetKey(node, "options", PyList(options))

WithAttributes(node, attributes) == SetKey(node, "attributes", PyList(attributes))

Opt(value, attributes) ==
    [name |-> value, value |-> PyStr(value), attributes |-> PyList(attributes)]

OptPlain(value) == [name |-> value, value |-> PyStr(value)]

\* plain fields of the coerced types
TreePlain ==
    << Leaf(<<"n">>, TYPE_INT, PyInt(1), TRUE),
       Leaf(<<"f">>, TYPE_FLOAT, PyFloat(2), FALSE),
       Leaf(<<"c">>, TYPE_BOOL, PyBool(FALSE), TRUE) >>

\* a select whose options gate one field each
TreeSelect ==
    << WithOptions(Leaf(<<"m">>, TYPE_SELECT, PyStr(<<"x">>), TRUE),
           << Opt(<<"x">>, << Leaf(<<"a">>, TYPE_INT, PyInt(1), TRUE) >>),
              Opt(<<"y">>, << Leaf(<<"b">>, TYPE_STR, PyStr(<<"s">>), TRUE) >>) >>) >>

\* a select nested in an option of a select, beside a field named like the
\* nested one
TreeNested ==
    << Leaf(<<"a">>, TYPE_INT, PyInt(1), TRUE),
       WithOptions(Leaf(<<"m">>, TYPE_SELECT, PyStr(<<"x">>), TRUE),
           << Opt(<<"x">>,
                  << WithOptions(Leaf(<<"q">>, TYPE_SELECT, PyStr(<<"y">>), TRUE),
                         << Opt(<<"y">>, << Leaf(<<"a">>, TYPE_INT, PyInt(3), TRUE) >>),
                            OptPlain(<<"z">>) >>) >>) >>) >>

\* a datatype field with sub-fields of its own
TreeDatatype ==
    << WithAttributes(Leaf(<<"s">>, TYPE_SURFACE, PyStr(<<"g">>), FALSE),
           << Leaf(<<"a">>, TYPE_INT, PyInt(1), TRUE) >>),
       Leaf(<<"b">>, TYPE_STR, PyStr(<<"s">>), FALSE) >>

\* a dictionary field with declared entries
TreeDict ==
    << WithAttributes(Leaf(<<"d">>, TYPE_DICT, PyStr(<<"s">>), TRUE),
           << Leaf(<<"a">>, TYPE_STR, PyStr(<<"s">>), FALSE) >>),
       Leaf(<<"n">>, TYPE_INT, PyInt(1), FALSE) >>

\* a grouping node without a type under an option
TreeUntyped ==
    << WithOptions(Leaf(<<"m">>, TYPE_SELECT, PyStr(<<"x">>), TRUE),
           << Opt(<<"x">>, << Untyped(<<"m">>),
                              Leaf(<<"a">>, TYPE_INT, PyInt(1), TRUE) >>) >>) >>

\* option values that hold the separator
TreeUnderscore ==
    << WithOptions(Leaf(<<"m">>, TYPE_SELECT, PyStr(<<"x", "_", "y">>), TRUE),
           << Opt(<<"x">>, << Leaf(<<"y", "_", "a">>, TYPE_INT, PyInt(1), TRUE) >>),
              Opt(<<"x", "_", "y">>, << Leaf(<<"a">>, TYPE_INT, PyInt(2), TRUE) >>) >>) >>

\* one option, whose value holds the separator
TreeSeparator ==
    << WithOptions(Leaf(<<"m">>, TYPE_SELECT, PyStr(<<"x", "_", "y">>), TRUE),
           << Opt(<<"x", "_", "y">>, << Leaf(<<"a">>, TYPE_INT, PyInt(2), TRUE) >>) >>) >>

\* a required select that declares no default
TreeNoDefault ==
    << WithOptions(LeafNoDefault(<<"m">>, TYPE_SELECT, TRUE),
           << Opt(<<"x">>, << Leaf(<<"a">>, TYPE_INT, PyInt(1), TRUE) >>) >>),
       Leaf(<<"f">>, TYPE_FLOAT, PyFloat(2), TRUE) >>

\* fields that declare a range
WithRange(node, min_value, max_value) ==
    SetKey(SetKey(node, "minValue", min_value), "maxValue", max_value)

Manual(node, element_type) ==
    SetKey(SetKey(node, "quantifier", QUANTIFIER_MANUAL), "elementType", element_type)

TreeRanged ==
    << WithRange(Leaf(<<"n">>, TYPE_INT, PyInt(1), FALSE), PyInt(0), PyInt(5)),
       WithRange(Leaf(<<"f">>, TYPE_FLOAT, PyFloat(2), FALSE), PyInt(0), PyInt(5)),
       WithRange(Manual(Leaf(<<"v">>, TYPE_ARRAY, PyStr(<<"1", ",", "9">>), FALSE),
                        ELEMENT_FLOAT),
                 PyInt(0), PyInt(5)) >>

\* two dictionary fields, the name of the first lying within the name of the
\* second
TreeTwoDicts ==
    << WithAttributes(Leaf(<<"d">>, TYPE_DICT, PyStr(<<"s">>), FALSE),
           << Leaf(<<"a">>, TYPE_STR, PyStr(<<"2">>), FALSE) >>),
       WithAttributes(SetKey(Leaf(<<"e", "d">>, TYPE_DICT, PyStr(<<"s">>), FALSE),
                             "elementType", ELEMENT_FLOAT),
           << Leaf(<<"a">>, TYPE_STR, PyStr(<<"2">>), FALSE) >>) >>

\* a multiple select
TreeMultiple ==
    << WithOptions(Leaf(<<"m">>, TYPE_MULTIPLE,
                        PyList(<< PyStr(<<"x">>), PyStr(<<"y">>) >>), TRUE),
           << Opt(<<"x">>, << Leaf(<<"a">>, TYPE_INT, PyInt(1), TRUE) >>),
              Opt(<<"y">>, << Leaf(<<"b">>, TYPE_FLOAT, PyFloat(2), FALSE) >>) >>) >>

Trees ==
    { TreePlain, TreeSelect, TreeNested, TreeDatatype, TreeDict, TreeUntyped,
      TreeUnderscore, TreeNoDefault, TreeMultiple, TreeRanged,
      TreeTwoDicts, TreeSeparator }

\* a node that declares a filter
WithConditions(node, conditions) == SetKey(node, "conditions", PyList(conditions))

\* a required datatype field that declares a filter and sub-fields, but no
\* default
TreeFiltered ==
    << WithConditions(
           WithAttributes(LeafNoDefault(<<"s">>, TYPE_SURFACE, TRUE),
                          << Leaf(<<"a">>, TYPE_INT, PyInt(1), TRUE) >>),
           << Condition(FILTER_SUBJECT, "==", PyStr(<<"A">>)) >>),
       Leaf(<<"b">>, TYPE_STR, PyStr(<<"s">>), FALSE) >>

\* a portlet's dynamic datatype field, beside a hidden field
TreeDynamic ==
    << SetKey(Leaf(<<"s">>, TYPE_SURFACE, PyStr(<<"g">>), TRUE), KEY_DYNAMIC, PyBool(TRUE)),
       SetKey(Leaf(<<"h">>, TYPE_INT, PyInt(1), FALSE), "ui_hidden", PyBool(TRUE)) >>

\* a filtered datatype field under an option of a select without a default
TreeOptionDatatype ==
    << WithOptions(LeafNoDefault(<<"m">>, TYPE_SELECT, TRUE),
           << Opt(<<"x">>,
                  << WithConditions(Leaf(<<"c">>, TYPE_CONNECTIVITY, PyNone, FALSE),
                                    << Condition(FILTER_SUBJECT, "!=", PyStr(<<"A">>)) >>) >>) >>) >>

\* a datatype field with two sub-fields, the name of the first being the
\* end of the name of the second
TreeSuffix ==
    << WithAttributes(Leaf(<<"s">>, TYPE_SURFACE, PyStr(<<"g">>), FALSE),
           << Leaf(<<"a">>, TYPE_INT, PyInt(1), FALSE),
              Leaf(<<"b", "a">>, TYPE_INT, PyInt(2), FALSE) >>) >>

\* array fields, the first with a range, beside a number and a list
TreeEquation ==
    << WithRange(Manual(Leaf(<<"v">>, TYPE_ARRAY, PyStr(<<"1">>), FALSE), ELEMENT_FLOAT),
                 PyInt(0), PyInt(5)),
       Manual(Leaf(<<"w">>, TYPE_ARRAY, PyStr(<<"1">>), FALSE), ELEMENT_FLOAT),
       Leaf(<<"n">>, TYPE_INT, PyInt(1), FALSE),
       Leaf(<<"l">>, TYPE_LIST, PyNone, FALSE) >>

\* the structure submitted for an array that an equation computes
Equation(equation_type, surface_gid) ==
    PyDict(<< PyList(<<PyStr(KEY_EQUATION), PyStr(<<"q">>)>>),
              PyList(<<PyStr(KEY_FOCAL_POINTS), PyStr(<<"[", "1", ",", "9", "]">>)>>),
              PyList(<<PyStr(KEY_SURFACE_GID), PyStr(surface_gid)>>) >>
           \o (IF equation_type = <<>> THEN <<>>
               ELSE << PyList(<<PyStr(<<"e", "l", "e", "m", "e", "n", "t", "T", "y", "p", "e">>),
                                PyStr(equation_type)>>) >>))

\* without a type, of a class that cannot be imported, on a surface the
\* store does not hold, and one that can be computed
Equations ==
    { Equation(<<>>, <<"g">>), Equation(<<"e", ".", "X">>, <<"g">>),
      Equation(<<"e", ".", "L">>, <<"z">>), Equation(<<"e", ".", "L">>, <<"g">>) }

\* a flat interface of datatype fields, two of them with a filter
LoadInterface ==
    << Leaf(<<"s">>, TYPE_SURFACE, PyNone, TRUE),
       Leaf(<<"c">>, TYPE_CONNECTIVITY, PyNone, FALSE),
       WithConditions(Leaf(<<"r">>, TYPE_SURFACE, PyNone, FALSE),
                      << Condition(FILTER_SUBJECT, "==", PyStr(<<"A">>)) >>),
       WithConditions(Leaf(<<"e">>, TYPE_CONNECTIVITY, PyNone, TRUE),
                      << Condition(FILTER_SUBJECT, "!=", PyStr(<<"A">>)) >>) >>

\* the identifiers submitted for them: those of the store and one it does
\* not hold
LoadGids == { PyStr(gid) : gid \in DOMAIN Store } \cup { PyStr(<<"z">>) }

\* the trees whose flat names are looked up in a submission
LookupTrees == { TreeDatatype, TreeSuffix, TreeSelect, TreeNested, TreeMultiple }

\* the trees whose datatype fields take their options from the store
StoredTrees == { TreeDatatype, TreeFiltered, TreeDynamic, TreeOptionDatatype }

\* the simulator's tree: a select whose first option carries two fields,
\* the second of them a select again
TreeSimulator ==
    << WithOptions(Leaf(<<"c">>, TYPE_SELECT, PyStr(<<"l">>), TRUE),
           << Opt(<<"l">>,
                  << Leaf(<<"a">>, TYPE_FLOAT, PyFloat(1), TRUE),
                     WithOptions(Leaf(<<"q">>, TYPE_SELECT, PyStr(<<"y">>), TRUE),
                         << Opt(<<"y">>, << Leaf(<<"b">>, TYPE_INT, PyInt(3), TRUE) >>),
                            OptPlain(<<"z">>) >>) >>),
              OptPlain(<<"s">>) >>),
       Leaf(<<"n">>, TYPE_INT, PyInt(1), TRUE) >>

SimulatorTrees == { TreeSimulator, TreeSelect }

\* every node of a tree, at every depth, in tree order
RECURSIVE AllNodes(_)
RECURSIVE AllNodesOfOptions(_)

AllNodesOfOptions(options) ==
    IF Len(options) = 0 THEN <<>>
    ELSE (IF HasList(Head(options), "attributes")
          THEN AllNodes(Head(options).attributes.l) ELSE <<>>)
         \o AllNodesOfOptions(Tail(options))

AllNodes(nodes) ==
    IF Len(nodes) = 0 THEN <<>>
    ELSE <<Head(nodes)>>
         \o (IF HasList(Head(nodes), "options")
             THEN AllNodesOfOptions(Head(nodes).options.l) ELSE <<>>)
         \o (IF HasList(Head(nodes), "attributes")
             THEN AllNodes(Head(nodes).attributes.l) ELSE <<>>)
         \o AllNodes(Tail(nodes))

\* the 'name' of every row of a flat list, in order
NamesOf(rows) == [i \in 1..Len(rows) |-> rows[i].name]


-----------------------------------------------------------------------------
(* Default injection *)

\* the mutant of needs_default that overwrites a key already present
needs_default_overwrite(kw, entry) ==
    /\ Has(entry, "required") /\ entry.required = TRUE
    /\ Has(entry, "default")

\* the mutant of needs_default that reads the default by its truth value
needs_default_truthy(kw, entry) ==
    /\ ~Has(kw, entry.name)
    /\ Has(entry, "required") /\ entry.required = TRUE
    /\ Has(entry, "default")
    /\ entry.default \notin {PyNone, PyBool(FALSE), PyInt(0), PyStr(<<>>)}

\* lines 111-113: the tests made before the type is read
needs_default(kw, entry) ==
    /\ ~Has(kw, entry.name)
    /\ Has(entry, "required") /\ entry.required = TRUE
    /\ Has(entry, "default")

\* lines 109-115: the first loop; entry[KEY_TYPE] raises KeyError on a node
\* without a type
RECURSIVE first_pass(_, _)
first_pass(st, inputs) ==
    IF st.err \/ Len(inputs) = 0 THEN st
    ELSE LET entry == Head(inputs)
         IN  IF ~needs_default(st.kw, entry) THEN first_pass(st, Tail(inputs))
             ELSE IF ~Has(entry, "type") THEN [st EXCEPT !.err = TRUE]
             ELSE IF entry.type # TYPE_DICT
             THEN first_pass([st EXCEPT !.kw = SetKey(st.kw, entry.name, entry.default)],
                             Tail(inputs))
             ELSE first_pass(st, Tail(inputs))

RECURSIVE append_state(_, _)
RECURSIVE second_pass(_, _)
RECURSIVE over_options(_, _, _)

\* lines 120-123: kwargs[entry[KEY_NAME]] raises KeyError when the node has
\* no entry in kwargs
over_options(st, entry, options) ==
    IF st.err \/ Len(options) = 0 THEN st
    ELSE LET option == Head(options)
         IN  IF ~Has(st.kw, entry.name) THEN [st EXCEPT !.err = TRUE]
             ELSE IF PyEq(option.value, st.kw[entry.name]) /\ Has(option, "attributes")
             THEN over_options(append_state(st, option.attributes), entry, Tail(options))
             ELSE over_options(st, entry, Tail(options))

\* lines 117-123: the second loop
second_pass(st, inputs) ==
    IF st.err \/ Len(inputs) = 0 THEN st
    ELSE LET entry == Head(inputs)
         IN  IF Has(entry, "required") /\ entry.required = TRUE
                 /\ HasList(entry, "options")
             THEN second_pass(over_options(st, entry, entry.options.l), Tail(inputs))
             ELSE second_pass(st, Tail(inputs))

\* append_required_defaults on the list value algorithm_inputs (PyList or
\* PyNone), threading kwargs and whether an exception left the call
append_state(st, algorithm_inputs) ==
    IF st.err \/ algorithm_inputs = PyNone THEN st
    ELSE second_pass(first_pass(st, algorithm_inputs.l), algorithm_inputs.l)

\* kw: kwargs as the call leaves it; err: the call raised
append_required_defaults(kw, algorithm_inputs) ==
    append_state([kw |-> kw, err |-> FALSE], PyList(algorithm_inputs))

-----------------------------------------------------------------------------
(* fill_defaults *)

\* the mutant of selected_values that reads the selection from the node's
\* current default
selected_values_from_default(param, data) ==
    IF ~Has(param, "default") THEN PyList(<<>>)
    ELSE IF param.type = TYPE_MULTIPLE THEN param.default
    ELSE PyList(<<param.default>>)

\* lines 278-283
selected_values(param, data) ==
    IF ~Has(data, param.name) THEN PyList(<<>>)
    ELSE IF param.type = TYPE_MULTIPLE THEN data[param.name]
    ELSE PyList(<<data[param.name]>>)

RECURSIVE fill_defaults(_, _, _)
RECURSIVE fill_options(_, _, _, _)

\* lines 284-286: the loop that replaces the selected options
fill_options(options, selected, data, fill_unselected_branches) ==
    IF Len(options) = 0 THEN <<>>
    ELSE LET option == Head(options)
             filled == IF PyIn(option.value, selected) \/ fill_unselected_branches
                       THEN fill_defaults(<<option>>, data, fill_unselected_branches)[1]
                       ELSE option
         IN  <<filled>> \o fill_options(Tail(options), selected, data,
                                        fill_unselected_branches)

\* lines 276-287: the options list after the call; the list object is the
\* node's own, so the caller's node and the returned node both hold it
new_options(param, data, fill_unselected_branches) ==
    IF Has(data, param.name) \/ fill_unselected_branches
    THEN fill_options(param.options.l, selected_values(param, data), data,
                      fill_unselected_branches)
    ELSE param.options.l

\* lines 269-288: one iteration
fill_param(param, data, fill_unselected_branches) ==
    LET p1 == IF Has(data, param.name)
              THEN SetKey(param, "default", data[param.name]) ELSE param
        p2 == IF HasList(param, "attributes")
              THEN SetKey(p1, "attributes",
                       PyList(fill_defaults(param.attributes.l, data,
                                            fill_unselected_branches)))
              ELSE p1
    IN  IF HasList(param, "options")
        THEN SetKey(p2, "options",
                    PyList(new_options(param, data, fill_unselected_branches)))
        ELSE p2

fill_defaults(adapter_interface, data, fill_unselected_branches) ==
    IF Len(adapter_interface) = 0 THEN <<>>
    ELSE <<fill_param(Head(adapter_interface), data, fill_unselected_branches)>>
             \o fill_defaults(Tail(adapter_interface), data, fill_unselected_branches)

\* the caller's tree after fill_defaults returned: copy() is shallow, so the
\* assignments new_options[i] = ... of line 286 land in the options lists of
\* the caller's nodes, at every depth the recursion visits
RECURSIVE fill_defaults_input(_, _, _)
fill_param_input(param, data, fill_unselected_branches) ==
    LET p1 == IF HasList(param, "attributes")
              THEN SetKey(param, "attributes",
                       PyList(fill_defaults_input(param.attributes.l, data,
                                                  fill_unselected_branches)))
              ELSE param
    IN  IF HasList(param, "options")
        THEN SetKey(p1, "options",
                    PyList(new_options(param, data, fill_unselected_branches)))
        ELSE p1

fill_defaults_input(adapter_interface, data, fill_unselected_branches) ==
    IF Len(adapter_interface) = 0 THEN <<>>
    ELSE <<fill_param_input(Head(adapter_interface), data, fill_unselected_branches)>>
             \o fill_defaults_input(Tail(adapter_interface), data,
                                    fill_unselected_branches)


-----------------------------------------------------------------------------
(* convert_ui_inputs *)

NONE_TEXT == <<"N", "o", "n", "e">>

\* line 573: kwargs[row_attr] in [None, '', 'None']
is_int_sentinel_without_none_text(x) == x = PyNone \/ x = PyStr(<<>>)

is_int_sentinel(x) == x = PyNone \/ x = PyStr(<<>>) \/ x = PyStr(NONE_TEXT)

\* line 580: kwargs[row_attr] in ['', 'None']
is_float_sentinel(x) == x = PyStr(<<>>) \/ x = PyStr(NONE_TEXT)

INVALID_PARAMETER == "InvalidParameterException"

KEY_ERROR == "KeyError"

\* the messages of lines 535-536 and 610-611 read row[KEY_LABEL]
raise_naming(row) == IF Has(row, "label") THEN INVALID_PARAMETER ELSE KEY_ERROR

\* lines 563-605, the coercion by type of the value found for the row:
\* raised is "none", the InvalidParameterException of _load_entity or
\* "Exception" for any other; assigned tells that kwa[row_attr] is set
coerced(row, raw, kw, meta_out, order) ==
    LET out == [raised |-> "none", assigned |-> TRUE, val |-> PyNone,
                warned |-> FALSE, metadata |-> meta_out, select |-> FALSE,
                gid |-> FALSE]
        failed == [out EXCEPT !.raised = "Exception"]
        ranged == Has(row, "minValue") /\ Has(row, "maxValue")
        number(conversion) ==
            Bind(conversion, LAMBDA conv :
                IF conv.ok
                THEN [out EXCEPT !.val = conv.val,
                                 !.warned = ranged /\ value_out_of_range(conv.val, row)]
                ELSE failed)
        array == convert_to_array(raw, row)
        listed == json_loads(raw)
        loaded == load_entity(row, raw, kw, meta_out, order)
    IN  CASE row.type = TYPE_ARRAY ->
                 Bind(array, LAMBDA parsed :
                     IF ~parsed.ok THEN failed
                     ELSE IF ~ranged THEN [out EXCEPT !.val = parsed.val]
                     ELSE Bind(validate_range_for_array_input(parsed.val, row),
                               LAMBDA checked :
                                   IF ~checked.ok THEN failed
                                   ELSE [out EXCEPT !.val = parsed.val,
                                                    !.warned = checked.warned]))
          [] row.type = TYPE_LIST ->
                 IF raw.t = "list" THEN [out EXCEPT !.assigned = FALSE]
                 ELSE Bind(listed, LAMBDA decoded :
                          IF decoded.ok THEN [out EXCEPT !.val = decoded.val]
                          ELSE failed)
          [] row.type = TYPE_BOOL -> [out EXCEPT !.val = PyBool(bool_of(raw))]
          [] row.type = TYPE_INT ->
                 IF is_int_sentinel(raw) THEN out ELSE number(int_of(raw))
          [] row.type = TYPE_FLOAT ->
                 IF is_float_sentinel(raw) THEN out ELSE number(float_of(raw))
          [] row.type = TYPE_STR -> [out EXCEPT !.val = raw]
          [] row.type = TYPE_SELECT -> [out EXCEPT !.val = raw, !.select = TRUE]
          [] row.type = TYPE_MULTIPLE ->
                 [out EXCEPT !.val = IF raw.t = "list" THEN raw ELSE PyList(<<raw>>)]
          [] row.type = TYPE_UPLOAD -> [out EXCEPT !.val = raw]
          [] OTHER ->
                 Bind(loaded, LAMBDA entity :
                     [out EXCEPT !.raised = entity.raised, !.val = entity.result,
                                 !.metadata = entity.metadata, !.select = TRUE,
                                 !.gid = Has(row, "field")])

\* lines 550-561: the value of the row is looked up under its own name or
\* under the name the submitted option gives it; fate is "found" when the
\* row goes on to be coerced
resolved(row, kw) ==
    LET row_attr == row.name
        lookup == find_field_submitted_name(kw, row_attr, TRUE)
        parent == is_parent_not_submitted(row, kw)
        answer(fate, after, warned) == [fate |-> fate, kw |-> after, warned |-> warned]
    IN  IF ~Has(kw, row_attr)
        THEN Bind(lookup, LAMBDA l :
                 IF l.err THEN answer("lookup_error", l.kw, l.warned)
                 ELSE IF l.name = PyNone THEN answer("absent", l.kw, l.warned)
                 ELSE answer("found", SetKey(l.kw, row_attr, l.kw[l.name.s]),
                             l.warned))
        ELSE Bind(parent, LAMBDA p :
                 IF p.err THEN answer("lookup_error", kw, FALSE)
                 ELSE IF p.val THEN answer("pruned", DelKey(kw, row_attr), FALSE)
                 ELSE answer("found", kw, FALSE))

\* the state of the loop of convert_ui_inputs before any row: trace notes,
\* for every row the loop takes up, whether its own name was a submitted key,
\* what became of it and whether its range check logged a warning
loop_start(kw, meta_out) ==
    [kwa |-> EmptyDict, kwargs |-> kw, metadata |-> meta_out,
     simple_select_list |-> <<>>, to_skip_dict_subargs |-> <<>>,
     warnings |-> 0, raised |-> "none", trace |-> <<>>]

\* lines 540-545: a DICT row takes its entries and retires their keys
dict_row(st, row, order) ==
    LET got == get_dictionary(row, st.kwargs, order)
        taken == { got.taken_keys[j] : j \in 1..Len(got.taken_keys) }
        with == SetKey(st.kwa, row.name, PyDict(got.result_dict))
    IN  IF ~got.ok
        THEN [st EXCEPT !.raised = raise_naming(row)]
        ELSE [st EXCEPT !.kwa = [k \in DOMAIN with \ taken |-> with[k]],
                        !.to_skip_dict_subargs = @ \o got.taken_keys]


\* lines 530-611, one turn of the loop for the row at index i
convert_row(st, i, flat_input_interface, validation_required, order) ==
    LET row == flat_input_interface[i]
        row_attr == row.name
        entry(fate, raw, val, warned) ==
            Append(st.trace, [row |-> i, own |-> Has(st.kwargs, row_attr),
                              fate |-> fate, raw |-> raw, val |-> val,
                              warned |-> warned])
        note(fate, raw, val) == entry(fate, raw, val, FALSE)
        warnings(found) == st.warnings + (IF found.warned THEN 1 ELSE 0)
        kept(out) == IF out.assigned THEN SetKey(st.kwa, row_attr, out.val) ELSE st.kwa
    IN  IF ~Has(row, "type")
        THEN [st EXCEPT !.raised = KEY_ERROR, !.trace = note("untyped", PyNone, PyNone)]
        ELSE IF /\ validation_required
                /\ Has(row, "required") /\ row.required
                /\ Has(st.kwargs, row_attr) /\ st.kwargs[row_attr] = PyStr(<<>>)
        THEN [st EXCEPT !.raised = raise_naming(row),
                        !.trace = note("required_empty", PyStr(<<>>), PyNone)]
        ELSE IF row.type = TYPE_DICT
        THEN Bind(dict_row(st, row, order), LAMBDA dict :
                 [dict EXCEPT !.trace =
                      IF dict.raised = "none"
                      THEN note("dict", PyNone, dict.kwa[row_attr])
                      ELSE note("dict_error", PyNone, PyNone)])
        ELSE IF \E j \in 1..Len(st.to_skip_dict_subargs) :
                    st.to_skip_dict_subargs[j] = row_attr
        THEN [st EXCEPT !.trace = note("consumed", PyNone, PyNone)]
        ELSE Bind(resolved(row, st.kwargs), LAMBDA found :
             IF found.fate = "lookup_error"
             THEN [st EXCEPT !.kwargs = found.kw, !.warnings = warnings(found),
                             !.raised = raise_naming(row),
                             !.trace = note("lookup_error", PyNone, PyNone)]
             ELSE IF found.fate # "found"
             THEN [st EXCEPT !.kwargs = found.kw, !.warnings = warnings(found),
                             !.trace = note(found.fate, PyNone, PyNone)]
             ELSE Bind(coerced(row, found.kw[row_attr], found.kw, st.metadata, order),
                  LAMBDA out :
                  IF out.raised # "none"
                  THEN [st EXCEPT !.kwargs = found.kw, !.warnings = warnings(found),
                                  !.metadata = out.metadata,
                                  !.raised = IF out.raised = INVALID_PARAMETER
                                             THEN INVALID_PARAMETER
                                             ELSE raise_naming(row),
                                  !.trace = note("coercion_error",
                                                 found.kw[row_attr], PyNone)]
                  ELSE [st EXCEPT !.kwargs = found.kw,
                                  !.metadata = out.metadata,
                                  !.warnings = warnings(found)
                                               + (IF out.warned THEN 1 ELSE 0),
                                  !.kwa = IF out.gid
                                          THEN SetKey(kept(out),
                                                      row_attr \o <<"_", "g", "i", "d">>,
                                                      found.kw[row_attr])
                                          ELSE kept(out),
                                  !.simple_select_list =
                                      IF out.select THEN Append(@, row_attr) ELSE @,
                                  !.trace = entry("converted", found.kw[row_attr],
                                                  out.val, out.warned)]))

\* the loop of line 530 from row i on; it ends at the first row that raises
RECURSIVE convert_rows(_, _, _, _, _)
convert_rows(st, i, flat_input_interface, validation_required, order) ==
    IF i > Len(flat_input_interface) \/ st.raised # "none" THEN st
    ELSE Bind(convert_row(st, i, flat_input_interface, validation_required, order),
              LAMBDA next : convert_rows(next, i + 1, flat_input_interface,
                                         validation_required, order))

\* convert_ui_inputs up to the call of collapse_params: kwa and
\* simple_select_list are what that call is handed, kwargs and metadata the
\* caller's two dictionaries afterwards
convert_ui_inputs(flat_input_interface, kw, meta_out, validation_required, order) ==
    convert_rows(loop_start(kw, meta_out), 1, flat_input_interface,
                 validation_required, order)


-----------------------------------------------------------------------------
(* Options read from the store *)

MAXIMUM_DATA_TYPES_DISPLAYED == 50

KEY_WARNING == "warning"

WARNING_OVERFLOW ==
    PyStr(<<"Too many entities in storage; some of them were not returned, to avoid overcrowding. Use filters, to make the list small enough to fit in here!">>)

\* the projects of the store, by the number of visible entities each holds
\* of every datatype class
ProjectStore == (1 :> 0) @@ (2 :> 1) @@ (3 :> 2) @@ (4 :> 50) @@ (5 :> 51)

\* the categories of the store: display and rawinput of each
Categories ==
    ("view" :> [display |-> TRUE, rawinput |-> FALSE])
    @@ ("upload" :> [display |-> FALSE, rawinput |-> TRUE])
    @@ ("analyze" :> [display |-> FALSE, rawinput |-> FALSE])

CategoryKeys == { PyNone } \cup { PyStr(<<key>>) : key \in DOMAIN Categories }

\* the i-th row of a store query: id, type, gid, subject, creation date,
\* operation group, tag; the first two rows are the entities of Store
StoredRow(i) ==
    << PyInt(i), PyNone,
       PyStr(IF i = 1 THEN <<"g">> ELSE IF i = 2 THEN <<"h">>
             ELSE <<"g">> \o NatToStr(i)),
       IF i = 1 THEN PyStr(<<"A">>) ELSE PyNone,
       PyInt(i),
       IF i = 2 THEN PyStr(<<"o">>) ELSE PyNone,
       IF i = 1 THEN PyStr(<<"t">>) ELSE PyNone >>

\* dao.get_values_of_datatype(project_id, data_class, filters, limit): at
\* most limit rows, and the number of entities that match
get_values_of_datatype(project_id, data_class, filters, limit) ==
    [data_list |-> [i \in 1..Min(ProjectStore[project_id], limit) |-> StoredRow(i)],
     total_count |-> ProjectStore[project_id]]

\* _get_available_datatypes: a name that is no datatype class finds nothing
get_available_datatypes(project_id, data_name, filters) ==
    IF data_name \notin KnownClasses THEN [data_list |-> <<>>, total_count |-> 0]
    ELSE get_values_of_datatype(project_id, data_name, filters,
                                MAXIMUM_DATA_TYPES_DISPLAYED)

\* the mutant of overflows that warns at the cap already
overflows_at_cap(total_count) == total_count >= MAXIMUM_DATA_TYPES_DISPLAYED

\* line 689
overflows(total_count) == total_count > MAXIMUM_DATA_TYPES_DISPLAYED

\* utils.date2string, on dates held as day numbers
date2string(date) == <<" ">> \o IntToStr(date.n)

\* lines 630-642: the label of the option of one row
display_name_of(value, type_) ==
    LET entity_gid == value[3].s
        entity_name == IF Has(Store, entity_gid) /\ type_ \in Store[entity_gid].classes
                       THEN Store[entity_gid].display_name ELSE <<>>
        described == entity_name \o <<" ", "-", " ">>
                     \o (IF bool_of(value[4]) THEN value[4].s
                         ELSE <<"N", "o", "n", "e", " ">>)
        dated == IF bool_of(value[6])
                 THEN described \o <<" ", "-", " ", "F", "r", "o", "m", ":", " ">>
                          \o PyStrOf(value[6])
                 ELSE described \o date2string(value[5])
        tagged == IF bool_of(value[7])
                  THEN dated \o <<" ", "-", " ">> \o PyStrOf(value[7])
                  ELSE dated
    IN  tagged \o <<" ", "-", " ", "I", "D", ":">> \o PyStrOf(value[1])

\* line 643 over the rows: every gid followed by a comma
RECURSIVE all_field_values(_)
all_field_values(data_list) ==
    IF Len(data_list) = 0 THEN <<>>
    ELSE PyStrOf(Head(data_list)[3]) \o <<",">> \o all_field_values(Tail(data_list))

\* _populate_values: one option per row, each with the attributes template
\* when there is one, and the option All in front for a category that is
\* neither display nor rawinput
populate_values(data_list, type_, category_key, complex_dt_attributes) ==
    LET plain(value) == [name |-> display_name_of(value, type_), value |-> value[3]]
        values == [i \in 1..Len(data_list) |->
                      IF complex_dt_attributes # PyNone
                      THEN SetKey(plain(data_list[i]), "attributes", complex_dt_attributes)
                      ELSE plain(data_list[i])]
        all == [name |-> <<"A", "l", "l">>,
                value |-> PyStr(SliceTo(all_field_values(data_list), -1))]
    IN  IF /\ category_key # PyNone
           /\ ~Categories[category_key.s[1]].display
           /\ ~Categories[category_key.s[1]].rawinput
           /\ Len(data_list) > 1
        THEN <<all>> \o values
        ELSE values

\* FilterChain(''): a chain without conditions
EmptyFilter == PyList(<<>>)

\* filter_condition.add_condition(field, operation, value): the chain object
\* takes one more condition
add_condition(filter_condition, field, operation, value) ==
    PyList(Append(filter_condition.l, Condition(field, operation, value)))

\* FilterChain.get_filters_for_type: the fields an entity of the type can be
\* filtered by
get_filters_for_type(type_) == PyList(<<PyStr(<<FILTER_SUBJECT>>)>>)

\* lines 699-701 and 726-729: a required node without a default takes the
\* value of the last option
default_of_last(transformed_param, options) ==
    IF /\ Has(transformed_param, "required") /\ transformed_param.required
       /\ Len(options) > 0
       /\ \/ ~Has(transformed_param, "default")
          \/ transformed_param.default \in {PyNone, PyStr(NONE_TEXT)}
    THEN SetKey(transformed_param, "default",
                PyStr(PyStrOf(options[Len(options)].value)))
    ELSE transformed_param

NothingFilled == [result |-> <<>>, input |-> <<>>, queries |-> <<>>]

RECURSIVE fill_input_tree_with_options(_, _, _)

\* lines 678-720, a node whose type names a datatype class: result is the
\* node handed back, input the caller's node afterwards (its filter chain is
\* the object the condition was added to), queries the filters the store was
\* asked with
fill_datatype_param(param, project_id, category_key) ==
    LET filter_condition ==
            add_condition(IF Has(param, "conditions") THEN param.conditions
                          ELSE EmptyFilter,
                          FILTER_VISIBLE, "==", PyBool(TRUE))
        filtered == IF Has(param, "conditions")
                    THEN SetKey(param, "conditions", filter_condition) ELSE param
        found == get_available_datatypes(project_id, param.type, filter_condition)
        warned == IF overflows(found.total_count)
                  THEN SetKey(filtered, KEY_WARNING, WARNING_OVERFLOW) ELSE filtered
        nested == IF HasList(param, "attributes") /\ Len(param.attributes.l) > 0
                  THEN fill_input_tree_with_options(param.attributes.l, project_id,
                                                    category_key)
                  ELSE NothingFilled
    IN  Bind(nested, LAMBDA below :
        Bind(populate_values(found.data_list, param.type, category_key,
                 IF HasList(param, "attributes") /\ Len(param.attributes.l) > 0
                 THEN PyList(below.result) ELSE PyNone),
             LAMBDA values :
        Bind(default_of_last(warned, values), LAMBDA defaulted :
            [result |->
                 [filterable |-> get_filters_for_type(param.type),
                  type |-> TYPE_SELECT,
                  options |-> IF Has(param, KEY_DYNAMIC)
                              THEN PyList(<<[name |-> param.default.s,
                                             value |-> param.default]>>)
                              ELSE PyList(values),
                  datatype |-> param.type,
                  attributes |-> PyList(<<>>)]
                 @@ defaulted,
             input |-> IF HasList(param, "attributes") /\ Len(param.attributes.l) > 0
                       THEN SetKey(filtered, "attributes", PyList(below.input))
                       ELSE filtered,
             queries |-> <<filter_condition>> \o below.queries])))

\* lines 723-733, any other node
fill_static_param(param, project_id, category_key) ==
    LET options == IF HasList(param, "options")
                   THEN fill_input_tree_with_options(param.options.l, project_id,
                                                     category_key)
                   ELSE NothingFilled
        attributes == IF HasList(param, "attributes")
                      THEN fill_input_tree_with_options(param.attributes.l, project_id,
                                                        category_key)
                      ELSE NothingFilled
        with(node, key, list) ==
            IF HasList(param, key) THEN SetKey(node, key, PyList(list)) ELSE node
    IN  Bind(options, LAMBDA opts :
        Bind(attributes, LAMBDA attrs :
            [result |->
                 with(IF HasList(param, "options")
                      THEN default_of_last(with(param, "options", opts.result),
                                           param.options.l)
                      ELSE param,
                      "attributes", attrs.result),
             input |-> with(with(param, "options", opts.input),
                            "attributes", attrs.input),
             queries |-> opts.queries \o attrs.queries]))

\* fill_input_tree_with_options: result is the list handed back, input the
\* caller's list afterwards, queries the filters the store was asked with
fill_input_tree_with_options(attributes_list, project_id, category_key) ==
    IF Len(attributes_list) = 0 THEN NothingFilled
    ELSE LET param == Head(attributes_list)
             one == IF Has(param, "ui_hidden") /\ bool_of(param.ui_hidden)
                    THEN [result |-> <<>>, input |-> param, queries |-> <<>>]
                    ELSE IF Has(param, "type") /\ param.type \notin STATIC_ACCEPTED_TYPES
                    THEN Bind(fill_datatype_param(param, project_id, category_key),
                              LAMBDA filled : [filled EXCEPT !.result = <<@>>])
                    ELSE Bind(fill_static_param(param, project_id, category_key),
                              LAMBDA filled : [filled EXCEPT !.result = <<@>>])
         IN  Bind(one, LAMBDA head :
             Bind(fill_input_tree_with_options(Tail(attributes_list), project_id,
                                               category_key),
                  LAMBDA rest :
                      [result |-> head.result \o rest.result,
                       input |-> <<head.input>> \o rest.input,
                       queries |-> head.queries \o rest.queries]))

-----------------------------------------------------------------------------
(* Cutting the simulator's tree to the checked inputs *)

KEY_PARAMETER_CHECKED == "checked"

KEY_SAVED_VALUE == "value"

RECURSIVE select_simulator_inputs(_, _, _)
RECURSIVE select_checked_options(_, _, _, _)
RECURSIVE select_promoted_options(_, _, _, _)

\* lines 763-767: the attributes of every option become what is selected of
\* them, and the option takes the saved value as its default
select_checked_options(options, selection_dictionary, prefix, saved_value) ==
    IF Len(options) = 0 THEN <<>>
    ELSE LET option == Head(options)
         IN  <<IF Has(option, "attributes")
               THEN SetKey(SetKey(option, "attributes",
                               PyList(select_simulator_inputs(option.attributes.l,
                                          selection_dictionary, prefix).result)),
                           "default", saved_value)
               ELSE option>>
             \o select_checked_options(Tail(options), selection_dictionary, prefix,
                                       saved_value)

\* lines 771-777: what is selected below the options holding the saved value
\* comes up one level; input are the options afterwards
select_promoted_options(options, selection_dictionary, prefix, param_name) ==
    IF Len(options) = 0 THEN [result |-> <<>>, input |-> <<>>]
    ELSE LET option == Head(options)
             one == IF /\ Has(selection_dictionary, param_name)
                       /\ Has(option, "attributes")
                       /\ PyEq(option.value,
                               selection_dictionary[param_name][KEY_SAVED_VALUE])
                    THEN Bind(select_simulator_inputs(option.attributes.l,
                                  selection_dictionary,
                                  option.value.s \o <<"_">> \o prefix),
                              LAMBDA below :
                                  [result |-> below.result,
                                   input |-> SetKey(option, "attributes",
                                                    PyList(below.input))])
                    ELSE [result |-> <<>>, input |-> option]
         IN  Bind(one, LAMBDA head :
             Bind(select_promoted_options(Tail(options), selection_dictionary, prefix,
                                          param_name),
                  LAMBDA rest : [result |-> head.result \o rest.result,
                                 input |-> <<head.input>> \o rest.input]))

\* lines 752-777 for one node: result is what the node adds to the list
\* handed back, input the caller's node afterwards
select_simulator_param(param, selection_dictionary, prefix) ==
    LET param_name == param.name
        labelled == IF Has(param, "label") /\ Len(prefix) > 0
                    THEN [param EXCEPT !.label = prefix \o <<"_">> \o @]
                    ELSE param
        is_checked == /\ Has(selection_dictionary, param_name)
                      /\ selection_dictionary[param_name][KEY_PARAMETER_CHECKED]
        defaulted == IF is_checked
                     THEN SetKey(labelled, "default",
                                 selection_dictionary[param_name][KEY_SAVED_VALUE])
                     ELSE labelled
    IN  IF ~HasList(param, "options")
        THEN [result |-> IF is_checked THEN <<defaulted>> ELSE <<>>,
              input |-> defaulted]
        ELSE IF is_checked
        THEN Bind(SetKey(defaulted, "options",
                      PyList(select_checked_options(param.options.l,
                                 selection_dictionary, prefix,
                                 selection_dictionary[param_name][KEY_SAVED_VALUE]))),
                  LAMBDA cut : [result |-> <<cut>>, input |-> cut])
        ELSE Bind(select_promoted_options(param.options.l, selection_dictionary,
                                          prefix, param_name),
                  LAMBDA promoted :
                      [result |-> promoted.result,
                       input |-> SetKey(defaulted, "options",
                                        PyList(promoted.input))])

\* select_simulator_inputs: result is the list handed back, input the
\* caller's list afterwards
select_simulator_inputs(full_tree, selection_dictionary, prefix) ==
    IF Len(full_tree) = 0 THEN [result |-> <<>>, input |-> <<>>]
    ELSE Bind(select_simulator_param(Head(full_tree), selection_dictionary, prefix),
              LAMBDA head :
         Bind(select_simulator_inputs(Tail(full_tree), selection_dictionary, prefix),
              LAMBDA rest : [result |-> head.result \o rest.result,
                             input |-> <<head.input>> \o rest.input]))

-----------------------------------------------------------------------------
(* Submissions and data mappings handed in by the callers *)

\* {name: default} over the rows that declare a default, later rows winning
RECURSIVE DefaultsOf(_)
DefaultsOf(rows) ==
    IF Len(rows) = 0 THEN EmptyDict
    ELSE LET row == rows[Len(rows)]
             before == DefaultsOf(SubSeq(rows, 1, Len(rows) - 1))
         IN  IF Has(row, "default") THEN SetKey(before, row.name, row.default)
             ELSE before

Restrict(d, keys) == [k \in keys |-> d[k]]

\* raw values a form posts: empty, the literal None, digits, an option value
RawValues ==
    { PyStr(<<>>), PyStr(<<"N", "o", "n", "e">>), PyStr(<<"7">>), PyStr(<<"y">>) }

\* the key a form posts for the sub-field of a datatype: the flat name with
\* the submitted identifier of the datatype written in as an option, the
\* shape that lines 195-198 look for
PostedName(k, d) ==
    LET at == Find(k, KEYWORD_PARAMS)
        parent == SliceTo(k, at)
        sufix == SliceFrom(k, at + 12)
    IN  IF /\ at >= 0
           /\ ~StartsWith(sufix, KEYWORD_OPTION)
           /\ Has(d, parent) /\ d[parent].t = "str"
        THEN Slice(k, 0, at + 12) \o KEYWORD_OPTION \o d[parent].s
             \o KEYWORD_SEPARATOR \o sufix
        ELSE k

\* the submission d with the sub-fields of datatypes under their posted names
Posted(d) ==
    [q \in { PostedName(k, d) : k \in DOMAIN d } |->
        d[CHOOSE k \in DOMAIN d : PostedName(k, d) = q]]

\* the submissions of a tree: any part of its default submission, under the
\* flat names or the posted ones, with at most one value replaced by a raw one
PartsOf(d) ==
    { Restrict(d, keys) : keys \in SUBSET DOMAIN d }
    \cup { SetKey(Restrict(d, keys), k, x) :
               keys \in SUBSET DOMAIN d, k \in DOMAIN d, x \in RawValues }

SubmissionsFor(t) ==
    LET defaults == DefaultsOf(flatten(t, PyNone))
    IN  PartsOf(defaults) \cup PartsOf(Posted(defaults))

\* the data mappings given to fill_defaults
DataChoices ==
    { EmptyDict,
      (<<"m">> :> PyStr(<<"y">>)) @@ (<<"b">> :> PyStr(<<"t">>)),
      (<<"m">> :> PyStr(<<"x">>)) @@ (<<"a">> :> PyInt(5)) @@ (<<"q">> :> PyStr(<<"y">>)),
      (<<"m">> :> PyList(<< PyStr(<<"y">>) >>)) @@ (<<"y">> :> PyInt(7)),
      (<<"s">> :> PyStr(<<"g">>)) @@ (<<"a">> :> PyInt(5)) }

\* a list as the text of a form and as the sequence of a programmatic
\* caller
SubmittedLists ==
    { PyStr(<<"[", "1", ",", "2", "]">>), PyList(<< PyInt(1), PyInt(2) >>) }

\* the submissions of the array fields: an equation, or numbers as text;
\* beside them a number and a list
ArraySubmissions ==
    LET values == Equations \cup { PyStr(<<"1", ",", "9">>) }
        whole == { (<<"v">> :> v) @@ (<<"w">> :> w) @@ (<<"n">> :> PyStr(<<"7">>))
                       @@ (<<"l">> :> l) :
                       v \in values, w \in values, l \in SubmittedLists }
    IN  { Restrict(d, keys) : d \in whole,
                              keys \in SUBSET {<<"v">>, <<"w">>, <<"n">>, <<"l">>} }

\* one entry of a selection dictionary
Selected(checked, saved_value) ==
    [checked |-> checked, value |-> saved_value]

\* the selection dictionaries given to select_simulator_inputs
Selections ==
    { EmptyDict,
      (<<"c">> :> Selected(FALSE, PyStr(<<"l">>))) @@ (<<"a">> :> Selected(TRUE, PyFloat(5)))
          @@ (<<"q">> :> Selected(FALSE, PyStr(<<"y">>))) @@ (<<"b">> :> Selected(TRUE, PyInt(7))),
      (<<"c">> :> Selected(TRUE, PyStr(<<"l">>))) @@ (<<"a">> :> Selected(TRUE, PyFloat(5)))
          @@ (<<"q">> :> Selected(FALSE, PyStr(<<"z">>))) @@ (<<"n">> :> Selected(TRUE, PyInt(2))),
      (<<"c">> :> Selected(FALSE, PyStr(<<"s">>))) @@ (<<"n">> :> Selected(FALSE, PyInt(2))),
      (<<"m">> :> Selected(FALSE, PyStr(<<"x">>))) @@ (<<"a">> :> Selected(TRUE, PyInt(4))),
      (<<"m">> :> Selected(TRUE, PyStr(<<"y">>))) @@ (<<"b">> :> Selected(FALSE, PyStr(<<"t">>))) }

-----------------------------------------------------------------------------
(* The state machine: one schema tree shared by the calls, and the flat    *)
(* submission of the request being served                                  *)

NoCall ==
    [op |-> "none", tree0 |-> <<>>, kwargs0 |-> EmptyDict, data |-> EmptyDict,
     flag |-> FALSE, simple_select_list |-> <<>>, warnings |-> 0, trace |-> <<>>,
     project_id |-> 0, category_key |-> PyNone, queries |-> <<>>,
     flat_name |-> <<>>, datatype_gid |-> PyNone, metadata0 |-> EmptyDict]

Init ==
    /\ tree \in Trees
    /\ declared = tree
    /\ loads = <<>>
    /\ kwargs \in SubmissionsFor(tree)
    /\ metadata_out = InitialMetadata
    /\ kwa = EmptyDict
    /\ call = NoCall
    /\ result = PyNone

\* the caller holds no result: the next call of the request can be made
Idle == call = NoCall

Flatten ==
    /\ Idle
    /\ result' = PyList(flatten(tree, PyNone))
    /\ call' = [NoCall EXCEPT !.op = "flatten"]
    /\ UNCHANGED <<loads, declared, tree, kwargs, metadata_out, kwa>>

PrepareParamNames ==
    /\ Idle
    /\ result' = PyList(prepare_param_names(tree, PyNone, FALSE))
    /\ call' = [NoCall EXCEPT !.op = "prepare_param_names"]
    /\ UNCHANGED <<loads, declared, tree, kwargs, metadata_out, kwa>>

KeyError == PyStr(<<KEY_ERROR>>)

AppendRequiredDefaults ==
    \E out \in {append_required_defaults(kwargs, tree)} :
        /\ Idle
        /\ kwargs' = out.kw
        /\ result' = IF out.err THEN KeyError ELSE PyNone
        /\ call' = [NoCall EXCEPT !.op = "append_required_defaults",
                                  !.kwargs0 = kwargs]
        /\ UNCHANGED <<loads, declared, tree, metadata_out, kwa>>

FillDefaults ==
    \E data \in DataChoices, fill_unselected_branches \in BOOLEAN :
        /\ Idle
        /\ result' = PyList(fill_defaults(tree, data, fill_unselected_branches))
        /\ tree' = fill_defaults_input(tree, data, fill_unselected_branches)
        /\ call' = [NoCall EXCEPT !.op = "fill_defaults", !.tree0 = tree,
                                  !.data = data, !.flag = fill_unselected_branches]
        /\ UNCHANGED <<loads, declared, kwargs, metadata_out, kwa>>

\* the order of the keys is read by DICT rows and by rows with a method only
ReadsKeyOrder(flat_input_interface) ==
    \E i \in 1..Len(flat_input_interface) :
        \/ Has(flat_input_interface[i], "python_method")
        \/ /\ Has(flat_input_interface[i], "type")
           /\ flat_input_interface[i].type = TYPE_DICT

\* the interface is flattened and the request converted, as the adapters do
ConvertUiInputs ==
    \E validation_required \in BOOLEAN, order \in KeyOrders :
      \E flat_input_interface \in {flatten(tree, PyNone)} :
        \E out \in {convert_ui_inputs(flat_input_interface, kwargs, metadata_out,
                                      validation_required, order)} :
            /\ Idle
            /\ order = "forward" \/ ReadsKeyOrder(flat_input_interface)
            /\ kwargs' = out.kwargs
            /\ metadata_out' = out.metadata
            /\ kwa' = IF out.raised = "none" THEN out.kwa ELSE EmptyDict
            /\ result' = IF out.raised = "none" THEN PyNone ELSE PyStr(<<out.raised>>)
            /\ call' = [NoCall EXCEPT !.op = "convert_ui_inputs",
                                      !.tree0 = flat_input_interface,
                                      !.kwargs0 = kwargs,
                                      !.flag = validation_required,
                                      !.simple_select_list = out.simple_select_list,
                                      !.warnings = out.warnings,
                                      !.trace = out.trace]
            /\ UNCHANGED <<loads, declared, tree>>

\* the caller takes the result; tree, kwargs and metadata_out stay as the
\* call left them
Return ==
    /\ ~Idle
    /\ call' = NoCall
    /\ result' = PyNone
    /\ kwa' = EmptyDict
    /\ UNCHANGED <<loads, declared, tree, kwargs, metadata_out>>

\* the longest filter chain and the longest label the calls may build
MaxConditions == 4

MaxLabelLen == 8

\* the options are read from the store for the caller's tree
FillInputTreeWithOptions ==
    \E project_id \in DOMAIN ProjectStore, category_key \in CategoryKeys :
      \E out \in {fill_input_tree_with_options(tree, project_id, category_key)} :
        /\ Idle
        /\ \A i \in 1..Len(out.queries) : Len(out.queries[i].l) <= MaxConditions
        /\ result' = PyList(out.result)
        /\ tree' = out.input
        /\ call' = [NoCall EXCEPT !.op = "fill_input_tree_with_options",
                                  !.tree0 = tree, !.project_id = project_id,
                                  !.category_key = category_key,
                                  !.queries = out.queries]
        /\ UNCHANGED <<loads, declared, kwargs, metadata_out, kwa>>

\* the caller's tree is cut to the checked inputs
SelectSimulatorInputs ==
    \E selection_dictionary \in Selections :
      \E out \in {select_simulator_inputs(tree, selection_dictionary, <<>>)} :
        /\ Idle
        /\ \A i \in 1..Len(AllNodes(out.input)) :
               Has(AllNodes(out.input)[i], "label")
                   => Len(AllNodes(out.input)[i].label) <= MaxLabelLen
        /\ result' = PyList(out.result)
        /\ tree' = out.input
        /\ call' = [NoCall EXCEPT !.op = "select_simulator_inputs",
                                  !.tree0 = tree, !.data = selection_dictionary]
        /\ UNCHANGED <<loads, declared, kwargs, metadata_out, kwa>>

\* the name of a field is looked up in the submission: with cleaning by
\* convert_ui_inputs, for a name that is no submitted key (lines 550-552),
\* without by review_operation_inputs, for every field (line 369)
FindFieldSubmittedName ==
    \E perform_clean \in BOOLEAN :
      \E flat_input_interface \in {flatten(tree, PyNone)} :
        \E i \in 1..Len(flat_input_interface) :
          \E out \in {find_field_submitted_name(kwargs, flat_input_interface[i].name,
                                                 perform_clean)} :
            /\ Idle
            /\ perform_clean => ~Has(kwargs, flat_input_interface[i].name)
            /\ kwargs' = out.kw
            /\ result' = IF out.err THEN KeyError ELSE out.name
            /\ call' = [NoCall EXCEPT !.op = "find_field_submitted_name",
                                      !.kwargs0 = kwargs, !.flag = perform_clean,
                                      !.flat_name = flat_input_interface[i].name]
            /\ UNCHANGED <<loads, declared, tree, metadata_out, kwa>>

\* the longest sequence of entities loaded into one metadata_out
MaxLoads == 3

\* an entity is loaded for a row of the interface, as line 602 does
LoadEntity ==
    \E i \in 1..Len(tree), datatype_gid \in LoadGids :
      \E out \in {load_entity(tree[i], datatype_gid, kwargs, metadata_out, "forward")} :
        /\ Idle
        /\ Len(loads) < MaxLoads
        /\ metadata_out' = out.metadata
        /\ result' = IF out.raised = "none" THEN out.result ELSE PyStr(<<out.raised>>)
        /\ loads' = IF /\ Has(Store, datatype_gid.s)
                        /\ tree[i].type \in Store[datatype_gid.s].classes
                     THEN Append(loads, [gid |-> datatype_gid.s, raised |-> out.raised])
                     ELSE loads
        /\ call' = [NoCall EXCEPT !.op = "load_entity", !.tree0 = <<tree[i]>>,
                                  !.datatype_gid = datatype_gid,
                                  !.metadata0 = metadata_out]
        /\ UNCHANGED <<declared, tree, kwargs, kwa>>

Next ==
    \/ Flatten
    \/ PrepareParamNames
    \/ AppendRequiredDefaults
    \/ FillDefaults
    \/ ConvertUiInputs
    \/ Return

Spec == Init /\ [][Next]_vars

\* the trees shown to the user: options from the store, then the cut to the
\* checked inputs
TreeInit ==
    /\ tree \in StoredTrees \cup SimulatorTrees
    /\ declared = tree
    /\ loads = <<>>
    /\ kwargs = EmptyDict
    /\ metadata_out = InitialMetadata
    /\ kwa = EmptyDict
    /\ call = NoCall
    /\ result = PyNone

TreeNext ==
    \/ FillInputTreeWithOptions
    \/ SelectSimulatorInputs
    \/ Return

TreeSpec == TreeInit /\ [][TreeNext]_vars

\* the lookups of flat names in the submissions of a tree
LookupInit ==
    /\ tree \in LookupTrees
    /\ declared = tree
    /\ loads = <<>>
    /\ kwargs \in SubmissionsFor(tree)
    /\ metadata_out = InitialMetadata
    /\ kwa = EmptyDict
    /\ call = NoCall
    /\ result = PyNone

LookupNext ==
    \/ FindFieldSubmittedName
    \/ Return

LookupSpec == LookupInit /\ [][LookupNext]_vars

\* the conversion of submitted arrays
ArrayInit ==
    /\ tree = TreeEquation
    /\ declared = tree
    /\ loads = <<>>
    /\ kwargs \in ArraySubmissions
    /\ metadata_out = InitialMetadata
    /\ kwa = EmptyDict
    /\ call = NoCall
    /\ result = PyNone

ArrayNext ==
    \/ ConvertUiInputs
    \/ Return

ArraySpec == ArrayInit /\ [][ArrayNext]_vars

\* the entities loaded one after another into one metadata_out
LoadInit ==
    /\ tree = LoadInterface
    /\ declared = tree
    /\ loads = <<>>
    /\ kwargs = EmptyDict
    /\ metadata_out = InitialMetadata
    /\ kwa = EmptyDict
    /\ call = NoCall
    /\ result = PyNone

LoadNext ==
    \/ LoadEntity
    \/ Return

LoadSpec == LoadInit /\ [][LoadNext]_vars

-----------------------------------------------------------------------------
(* Properties of flattening and naming *)

Range(seq) == { seq[i] : i \in 1..Len(seq) }

\* the lists of siblings of a tree: the list itself, and below each node the
\* attributes of each of its options and its own attributes
RECURSIVE SiblingLists(_)
RECURSIVE SiblingListsBelow(_)
RECURSIVE SiblingListsOfOption(_)
SiblingLists(nodes) ==
    {nodes} \cup UNION { SiblingListsBelow(nodes[i]) : i \in 1..Len(nodes) }

SiblingListsBelow(node) ==
    (IF HasList(node, "attributes") THEN SiblingLists(node.attributes.l) ELSE {})
    \cup (IF HasList(node, "options")
          THEN UNION { SiblingListsOfOption(node.options.l[i]) :
                           i \in 1..Len(node.options.l) }
          ELSE {})

SiblingListsOfOption(option) ==
    IF HasList(option, "attributes") THEN SiblingLists(option.attributes.l) ELSE {}

\* node names are unique within each sibling scope
SiblingUnique(nodes) ==
    \A l \in SiblingLists(nodes) :
        \A i, j \in 1..Len(l) : i # j => l[i].name # l[j].name

\* C1: for a tree whose names are unique among siblings, flatten returns
\* rows whose names are pairwise distinct
C1_FlattenNamesDistinct ==
    (call.op = "flatten" /\ SiblingUnique(tree)) =>
        \A i, j \in 1..Len(result.l) :
            i # j => result.l[i].name # result.l[j].name

\* the grammar of the flat names, written out: for every node in tree order
\* its expected flat name, or <<>> for a node the grammar says nothing about
\* (a node without a type, or a node at the top level)
GRAMMAR_PARAMETERS ==
    <<"_", "p", "a", "r", "a", "m", "e", "t", "e", "r", "s", "_">>

GRAMMAR_OPTION ==
    <<"_", "p", "a", "r", "a", "m", "e", "t", "e", "r", "s", "_",
      "o", "p", "t", "i", "o", "n", "_">>

RECURSIVE GrammarNames(_, _, _)
RECURSIVE GrammarNamesOfOptions(_, _)

GrammarNamesOfOptions(options, parent) ==
    IF Len(options) = 0 THEN <<>>
    ELSE (IF HasList(Head(options), "attributes")
          THEN GrammarNames(Head(options).attributes.l,
                   parent \o GRAMMAR_OPTION \o Head(options).value.s \o <<"_">>,
                   TRUE)
          ELSE <<>>)
         \o GrammarNamesOfOptions(Tail(options), parent)

GrammarNames(nodes, prefix, nested) ==
    IF Len(nodes) = 0 THEN <<>>
    ELSE LET node == Head(nodes)
             parent == prefix \o node.name
         IN  << IF nested /\ Has(node, "type") THEN parent ELSE <<>> >>
             \o (IF HasList(node, "options")
                 THEN GrammarNamesOfOptions(node.options.l, parent) ELSE <<>>)
             \o (IF HasList(node, "attributes")
                 THEN GrammarNames(node.attributes.l,
                                   parent \o GRAMMAR_PARAMETERS, TRUE)
                 ELSE <<>>)
             \o GrammarNames(Tail(nodes), prefix, nested)

\* C2: every typed field under option O of parent P is named
\* <prefix><P>_parameters_option_<O>_<f>, every typed sub-field of a parent P
\* with attributes of its own <prefix><P>_parameters_<f>, at every depth
C2_FlattenFollowsGrammar ==
    call.op = "flatten" =>
        LET expected == GrammarNames(tree, <<>>, FALSE)
        IN  /\ Len(result.l) = Len(expected)
            /\ \A i \in 1..Len(expected) :
                   expected[i] # <<>> => result.l[i].name = expected[i]

\* a flattened tree holding a field two options deep and a field under a
\* node with attributes of its own
C2_Witness ==
    /\ call.op = "flatten"
    /\ \E i \in 1..Len(result.l) :
           Cardinality(Occurrences(result.l[i].name, GRAMMAR_OPTION)) = 2

\* the names of a nested tree in tree order: the node, then the attributes
\* of each of its options, then its own attributes
RECURSIVE WalkNames(_)
RECURSIVE WalkOptions(_)

WalkOptions(options) ==
    IF Len(options) = 0 THEN <<>>
    ELSE (IF HasList(Head(options), "attributes")
          THEN WalkNames(Head(options).attributes.l) ELSE <<>>)
         \o WalkOptions(Tail(options))

WalkNames(nodes) ==
    IF Len(nodes) = 0 THEN <<>>
    ELSE <<Head(nodes).name>>
         \o (IF HasList(Head(nodes), "options")
             THEN WalkOptions(Head(nodes).options.l) ELSE <<>>)
         \o (IF HasList(Head(nodes), "attributes")
             THEN WalkNames(Head(nodes).attributes.l) ELSE <<>>)
         \o WalkNames(Tail(nodes))

\* C3: the names prepare_param_names gives, read in tree order, are the
\* names of flatten of the same tree
C3_PrepareAgreesWithFlatten ==
    call.op = "prepare_param_names" =>
        WalkNames(result.l) = NamesOf(flatten(tree, PyNone))


-----------------------------------------------------------------------------
(* Properties of default injection *)

\* the nodes below the top level that lie under the option selected in kw
\* for their required parent, the parent being the top level's or such a
\* node itself
RECURSIVE SelectedBelow(_, _)
RECURSIVE SelectedBelowOptions(_, _, _)

SelectedBelowOptions(options, chosen, kw) ==
    IF Len(options) = 0 THEN <<>>
    ELSE (IF PyEq(Head(options).value, chosen) /\ HasList(Head(options), "attributes")
          THEN Head(options).attributes.l
                   \o SelectedBelow(Head(options).attributes.l, kw)
          ELSE <<>>)
         \o SelectedBelowOptions(Tail(options), chosen, kw)

SelectedBelow(nodes, kw) ==
    IF Len(nodes) = 0 THEN <<>>
    ELSE LET node == Head(nodes)
         IN  (IF Has(node, "required") /\ node.required = TRUE
                  /\ HasList(node, "options") /\ Has(kw, node.name)
              THEN SelectedBelowOptions(node.options.l, kw[node.name], kw)
              ELSE <<>>)
             \o SelectedBelow(Tail(nodes), kw)

\* required, with a declared default, absent from the kwargs of the call
WantsDefault(node) ==
    /\ Has(node, "required") /\ node.required = TRUE
    /\ Has(node, "default")
    /\ ~Has(call.kwargs0, node.name)

Returned == call.op = "append_required_defaults" /\ result = PyNone

\* C4 as stated: every node of the tree that is required, declares a default
\* and was absent from kwargs is a key of kwargs mapped to its default
C4_EveryNodeDefaulted ==
    Returned =>
        \A node \in Range(AllNodes(tree)) :
            WantsDefault(node) =>
                Has(kwargs, node.name) /\ kwargs[node.name] = node.default

\* C4 amended: a required node with a default, not of DICT type and absent
\* from kwargs before the call is a key of kwargs afterwards when it is a
\* top-level node or lies under the option selected for its required parent;
\* a top-level node is mapped to its default, a nested one to its default or
\* to that of an equally named node the call served as well
C4_ServedNodesDefaulted ==
    Returned =>
        LET served == tree \o SelectedBelow(tree, kwargs)
            Wants(node) == WantsDefault(node) /\ node.type # TYPE_DICT
        IN  /\ \A node \in Range(tree) :
                   Wants(node) =>
                       Has(kwargs, node.name) /\ kwargs[node.name] = node.default
            /\ \A node \in Range(served) :
                   Wants(node) =>
                       /\ Has(kwargs, node.name)
                       /\ \E other \in Range(served) :
                              /\ other.name = node.name
                              /\ Wants(other)
                              /\ kwargs[node.name] = other.default

\* the call returned after giving a default to a top-level node and to a
\* node under the option selected for it
C4_Witness ==
    /\ Returned
    /\ \E node \in Range(tree) : WantsDefault(node) /\ node.type # TYPE_DICT
    /\ \E node \in Range(SelectedBelow(tree, kwargs)) :
           WantsDefault(node) /\ node.type # TYPE_DICT

\* C5: every key of kwargs before the call is a key afterwards, with the
\* value it had, whether the call returned or raised
C5_NothingOverwritten ==
    call.op = "append_required_defaults" =>
        \A k \in DOMAIN call.kwargs0 :
            Has(kwargs, k) /\ kwargs[k] = call.kwargs0[k]

\* the call inserted a key while kwargs held, under the name of a required
\* node it served, a value other than that node's default
C5_Witness ==
    /\ call.op = "append_required_defaults"
    /\ kwargs # call.kwargs0
    /\ \E node \in Range(tree \o SelectedBelow(tree, kwargs)) :
           /\ Has(node, "required") /\ node.required = TRUE
           /\ Has(node, "default")
           /\ Has(call.kwargs0, node.name)
           /\ call.kwargs0[node.name] # node.default

\* C6: the call completes for every required node with options, and every
\* key it inserts is the name of a top-level node or of a node under the
\* option selected for its parent
C6_SelectedBranchOnlyAndCompletes ==
    call.op = "append_required_defaults" =>
        /\ result = PyNone
        /\ \A k \in DOMAIN kwargs \ DOMAIN call.kwargs0 :
               \E node \in Range(tree \o SelectedBelow(tree, kwargs)) :
                   node.name = k

-----------------------------------------------------------------------------
(* Properties of fill_defaults *)

\* C7: applying fill_defaults to its own result, with the same data and
\* flag, gives that result again
C7_FillDefaultsIdempotent ==
    call.op = "fill_defaults" =>
        fill_defaults(result.l, call.data, call.flag) = result.l

\* a call whose data selected an option and changed a default under it
C7_Witness ==
    /\ call.op = "fill_defaults"
    /\ call.data # EmptyDict
    /\ \E i \in 1..Len(result.l) :
           /\ HasList(result.l[i], "options")
           /\ Has(call.data, result.l[i].name)
           /\ result.l[i].options # call.tree0[i].options

-----------------------------------------------------------------------------
(* Properties of convert_ui_inputs *)

Converted == call.op = "convert_ui_inputs"

COERCED_TYPES == {TYPE_INT, TYPE_FLOAT, TYPE_STR, TYPE_BOOL}

\* the rows of flatten that lie, at every level, under the option their
\* parent declares as its default, the top-level rows among them
RECURSIVE DefaultSelectedRows(_, _)
RECURSIVE DefaultSelectedOfOptions(_, _, _)

DefaultSelectedOfOptions(options, param, prefix) ==
    IF Len(options) = 0 THEN <<>>
    ELSE LET option == Head(options)
             chosen == /\ Has(param, "default")
                       /\ \/ param.default = option.value
                          \/ PyIn(option.value, param.default)
             below == IF chosen /\ HasList(option, "attributes")
                      THEN DefaultSelectedRows(option.attributes.l,
                               PyStr(form_prefix(param.name, prefix, option.value)))
                      ELSE <<>>
         IN  below \o DefaultSelectedOfOptions(Tail(options), param, prefix)

DefaultSelectedRows(params_list, prefix) ==
    IF Len(params_list) = 0 THEN <<>>
    ELSE LET param == Head(params_list)
         IN  <<flat_row(param, prefix)>>
             \o (IF HasList(param, "options")
                 THEN DefaultSelectedOfOptions(param.options.l, param, prefix)
                 ELSE <<>>)
             \o DefaultSelectedRows(Tail(params_list), prefix)

\* the default of the row lies in the range the row declares, if any
DefaultInRange(row) ==
    (Has(row, "minValue") /\ Has(row, "maxValue"))
        => ~value_out_of_range(row.default, row)

\* every row of the flat list declares a default, so that a submission can
\* map every field name to one
EveryRowHasDefault(rows) == \A i \in 1..Len(rows) : Has(rows[i], "default")

\* C8: round trip.  When every flattened field declares a default and the
\* submission maps every flattened field name to it, convert_ui_inputs
\* succeeds and hands back, for every INT, FLOAT, STR and BOOL field at top
\* level or under the default-selected options of its parents, a value equal
\* to that default.
C8_RoundTripReturnsDefaults ==
    (/\ Converted
     /\ EveryRowHasDefault(call.tree0)
     /\ call.kwargs0 = DefaultsOf(call.tree0)) =>
        \A row \in Range(DefaultSelectedRows(tree, PyNone)) :
            (/\ Has(row, "type") /\ row.type \in COERCED_TYPES
             /\ Has(row, "default") /\ DefaultInRange(row))
            => /\ result = PyNone
               /\ Has(kwa, row.name)
               /\ PyEq(kwa[row.name], row.default)

\* what the loop noted about the rows it took up
Entries == { call.trace[i] : i \in 1..Len(call.trace) }

RowOf(e) == call.tree0[e.row]

InvalidParameter == PyStr(<<INVALID_PARAMETER>>)

\* the row came to the test of line 534 with a submitted string, or to the
\* coercion of lines 563-605 with one: it was neither consumed by a DICT row
\* nor left out as not submitted or pruned
CameToCoercion(e) == e.fate \in {"required_empty", "converted", "coercion_error"}

IsSentinelText(x) == x = PyStr(<<>>) \/ x = PyStr(NONE_TEXT)

\* line 534 applies to the row: validation is asked for, the row is required
\* and its value was submitted under its own name
Demanded(e) ==
    call.flag /\ Has(RowOf(e), "required") /\ RowOf(e).required /\ e.own

\* no later row of the flat list has the name of this one, and no DICT row
\* retires it
KeepsItsEntry(e) ==
    /\ \A later \in Entries :
           later.row > e.row => RowOf(later).name # RowOf(e).name
    /\ \A i \in 1..Len(call.tree0) :
           (Has(call.tree0[i], "type") /\ call.tree0[i].type = TYPE_DICT)
               => ~Contains(RowOf(e).name, call.tree0[i].name)

\* the row was given None, and the result of a call that succeeds maps the
\* field to None
MappedToNone(e) ==
    /\ e.fate = "converted"
    /\ e.val = PyNone
    /\ (result = PyNone /\ KeepsItsEntry(e))
           => (Has(kwa, RowOf(e).name) /\ kwa[RowOf(e).name] = PyNone)

FailedAsInvalid(e) == e.fate = "coercion_error" /\ result = InvalidParameter

IsNumericRow(e) ==
    Has(RowOf(e), "type") /\ RowOf(e).type \in {TYPE_INT, TYPE_FLOAT}

\* C9 as stated: an INT or FLOAT field submitted as "" or "None" is mapped
\* to None without an error, whatever the field and the call; any other text
\* that is no number fails the call with InvalidParameterException.
C9_SentinelsAlwaysMapToNone ==
    Converted =>
        \A e \in Entries :
            (IsNumericRow(e) /\ CameToCoercion(e) /\ e.raw.t = "str") =>
                /\ IsSentinelText(e.raw) => MappedToNone(e)
                /\ (~IsSentinelText(e.raw) /\ ~IsIntLiteral(e.raw.s))
                       => FailedAsInvalid(e)

\* C9, amended: "None" is always mapped to None; "" is mapped to None unless
\* the field is required, validation is asked for and the value was
\* submitted under the field's own flat name, and then the call fails with
\* InvalidParameterException before any coercion; any other text that is no
\* number fails the call with InvalidParameterException.
C9_SentinelsMapToNoneUnlessRequiredEmpty ==
    Converted =>
        \A e \in Entries :
            (IsNumericRow(e) /\ CameToCoercion(e) /\ e.raw.t = "str") =>
                /\ e.raw = PyStr(NONE_TEXT) => MappedToNone(e)
                /\ (e.raw = PyStr(<<>>) /\ ~Demanded(e)) => MappedToNone(e)
                /\ (e.raw = PyStr(<<>>) /\ Demanded(e))
                       => (e.fate = "required_empty" /\ result = InvalidParameter)
                /\ (~IsSentinelText(e.raw) /\ ~IsIntLiteral(e.raw.s))
                       => FailedAsInvalid(e)

\* C9, witness: a call that succeeded gave None to an INT or FLOAT field
\* submitted as the text None
C9_Witness ==
    /\ Converted
    /\ result = PyNone
    /\ \E e \in Entries :
           /\ IsNumericRow(e)
           /\ e.raw = PyStr(NONE_TEXT)
           /\ e.fate = "converted"
           /\ Has(kwa, RowOf(e).name)
           /\ kwa[RowOf(e).name] = PyNone

\* C10: a BOOL field submitted as "" or "None" is mapped to None, as the INT
\* and FLOAT fields are, not to True or False.
C10_BoolSentinelMapsToNone ==
    Converted =>
        \A e \in Entries :
            (/\ Has(RowOf(e), "type") /\ RowOf(e).type = TYPE_BOOL
             /\ e.fate \in {"converted", "coercion_error"}
             /\ IsSentinelText(e.raw))
            => MappedToNone(e)

-----------------------------------------------------------------------------
(* Properties of range validation *)

Ranged(row) == Has(row, "minValue") /\ Has(row, "maxValue")

IsRangedRow(e) ==
    /\ Has(RowOf(e), "type")
    /\ RowOf(e).type \in {TYPE_INT, TYPE_FLOAT, TYPE_ARRAY}
    /\ Ranged(RowOf(e))

\* the numbers a submitted value writes: the number itself, the decimal
\* literal of a text or, for a manual ARRAY field, the literals between the
\* commas of a text; <<>> when the value writes no numbers
NumbersWritten(row, raw) ==
    IF raw.t \in {"int", "float"} /\ row.type # TYPE_ARRAY THEN <<raw.n>>
    ELSE IF raw.t # "str" THEN <<>>
    ELSE IF row.type # TYPE_ARRAY
    THEN (IF IsIntLiteral(raw.s) THEN <<IntLiteralValue(raw.s)>> ELSE <<>>)
    ELSE IF Has(row, "quantifier") /\ row.quantifier = QUANTIFIER_MANUAL
            /\ AllIntLiterals(Split(raw.s, ","))
    THEN [i \in 1..Len(Split(raw.s, ",")) |-> IntLiteralValue(Split(raw.s, ",")[i])]
    ELSE <<>>

\* the numbers of a converted value
NumbersOf(val) ==
    IF val.t = "list" THEN [i \in 1..Len(val.l) |-> NumberOf(val.l[i])]
    ELSE <<NumberOf(val)>>

OutsideRange(row, numbers) ==
    \E i \in 1..Len(numbers) :
        numbers[i] < row.minValue.n \/ numbers[i] > row.maxValue.n

-----------------------------------------------------------------------------
(* Properties of dictionary fields *)

IsDictRow(e) ==
    Has(RowOf(e), "type") /\ RowOf(e).type = TYPE_DICT /\ e.fate = "dict"

\* the submission keys that hold the name of a DICT field and are not the name
ConsumedBy(name) ==
    { K \in DOMAIN call.kwargs0 : Contains(K, name) /\ K # name }

\* the dictionary holds, under the suffix of K, the value some consumed key
\* with that suffix was submitted with, coerced by the element type of the row
HoldsEntryOf(dictionary, row, K) ==
    \E j \in 1..Len(dictionary.l) :
        /\ dictionary.l[j].l[1] = PyStr(AfterLastMarker(K))
        /\ \E K2 \in ConsumedBy(row.name) :
               /\ AfterLastMarker(K2) = AfterLastMarker(K)
               /\ dictionary_value(row, call.kwargs0[K2]) = Done(dictionary.l[j].l[2])

\* C12: in a call that succeeds, a DICT field F is mapped to a dictionary that
\* holds an entry for every submission key K that contains F and is not F;
\* no such K is a key of the result, and no such K gives an entry to another
\* DICT field.
C12_DictConsumesItsKeys ==
    (Converted /\ result = PyNone) =>
        \A e \in Entries :
            IsDictRow(e) =>
                /\ Has(kwa, RowOf(e).name)
                /\ kwa[RowOf(e).name] = e.val
                /\ \A K \in ConsumedBy(RowOf(e).name) :
                       /\ HoldsEntryOf(e.val, RowOf(e), K)
                       /\ ~Has(kwa, K)
                       /\ \A other \in Entries :
                              (IsDictRow(other) /\ other.row # e.row)
                                  => ~HoldsEntryOf(other.val, RowOf(other), K)

-----------------------------------------------------------------------------
(* Properties of required and unresolved fields *)

IsRequiredRow(e) == Has(RowOf(e), "required") /\ RowOf(e).required

\* C13: with validation_required true, a required field whose submitted
\* value is the empty string, found under the field's flat name or under the
\* option-qualified name that reverse name resolution finds, fails the call
\* with InvalidParameterException.
C13_RequiredEmptyFails ==
    (Converted /\ call.flag) =>
        \A e \in Entries :
            (IsRequiredRow(e) /\ CameToCoercion(e) /\ e.raw = PyStr(<<>>))
                => (e.fate = "required_empty" /\ result = InvalidParameter)

\* no other row of the flat list has the name of this one
UniqueName(e) ==
    \A i \in 1..Len(call.tree0) :
        i # e.row => call.tree0[i].name # RowOf(e).name

\* C14: a field that is not submitted under its flat name and for which
\* reverse name resolution yields no key, whatever else the submission holds,
\* does not fail the call and has no entry in the result.
C14_UnresolvedIsOmitted ==
    Converted =>
        \A e \in Entries :
            (~e.own /\ e.fate \in {"absent", "lookup_error"})
                => /\ e.fate = "absent"
                   /\ (result = PyNone /\ UniqueName(e))
                          => ~Has(kwa, RowOf(e).name)

-----------------------------------------------------------------------------
(* Properties of pruning *)

\* for every row of flatten, in its order, the (parent, option) pairs the
\* row lies under: the flat name of each enclosing parent with options and
\* the value of the option that holds the row
RECURSIVE EnclosingPairs(_, _, _)
RECURSIVE EnclosingPairsOfOptions(_, _, _, _)

EnclosingPairsOfOptions(options, param, prefix, pairs) ==
    IF Len(options) = 0 THEN <<>>
    ELSE (IF HasList(Head(options), "attributes")
          THEN EnclosingPairs(Head(options).attributes.l,
                   PyStr(form_prefix(param.name, prefix, Head(options).value)),
                   Append(pairs, <<flat_row(param, prefix).name, Head(options).value>>))
          ELSE <<>>)
         \o EnclosingPairsOfOptions(Tail(options), param, prefix, pairs)

EnclosingPairs(params_list, prefix, pairs) ==
    IF Len(params_list) = 0 THEN <<>>
    ELSE LET param == Head(params_list)
         IN  <<pairs>>
             \o (IF HasList(param, "options")
                 THEN EnclosingPairsOfOptions(param.options.l, param, prefix, pairs)
                 ELSE <<>>)
             \o (IF HasList(param, "attributes")
                 THEN EnclosingPairs(param.attributes.l,
                          PyStr(form_prefix(param.name, prefix, PyNone)), pairs)
                 ELSE <<>>)
             \o EnclosingPairs(Tail(params_list), prefix, pairs)

\* the option of the pair is among the options submitted for its parent
OptionSubmitted(pair) ==
    /\ Has(call.kwargs0, pair[1])
    /\ PyIn(pair[2], compute_submit_option_select(call.kwargs0[pair[1]]))

\* C15: in a call that succeeds, a field of a coerced type that lies under
\* options and was submitted under its flat name has an entry in the result
\* if and only if every option it lies under is among the options submitted
\* for the parent of that option, whatever characters the option values hold.
C15_PrunedIffOptionNotSubmitted ==
    (Converted /\ result = PyNone) =>
        \A e \in Entries :
            LET pairs == EnclosingPairs(tree, PyNone, <<>>)[e.row]
            IN  (/\ pairs # <<>>
                 /\ Has(call.kwargs0, RowOf(e).name)
                 /\ UniqueName(e)
                 /\ Has(RowOf(e), "type") /\ RowOf(e).type \in COERCED_TYPES)
                => (Has(kwa, RowOf(e).name)
                       <=> \A j \in 1..Len(pairs) : OptionSubmitted(pairs[j]))

-----------------------------------------------------------------------------
(* Properties of the caller's tree *)

\* C19: after fill_defaults returned, the tree it was handed is what it was
\* before the call: every node, every options list and its elements, every
\* attributes list.
C19_FillDefaultsLeavesInput ==
    call.op = "fill_defaults" => tree = call.tree0

-----------------------------------------------------------------------------
(* Properties of the options read from the store *)

FilledOptions == call.op = "fill_input_tree_with_options"

\* the datatype nodes handed back by the call, at every depth
FilledDatatypeNodes ==
    IF FilledOptions
    THEN { AllNodes(result.l)[i] : i \in { j \in 1..Len(AllNodes(result.l)) :
                                              Has(AllNodes(result.l)[j], "datatype") } }
    ELSE {}

\* the number of entities the store reported to the call
Reported == ProjectStore[call.project_id]

\* the call named a category that is neither display nor rawinput
Grouping ==
    /\ call.category_key # PyNone
    /\ ~Categories[call.category_key.s[1]].display
    /\ ~Categories[call.category_key.s[1]].rawinput

\* C16 as stated: a datatype node for which the store reports more than 50
\* entities comes back with exactly 50 options and the overflow warning,
\* whatever the category; with 50 or fewer it carries no warning.
C16_FiftyOptionsForEveryCategory ==
    \A node \in FilledDatatypeNodes :
        IF Reported > 50
        THEN /\ Len(node.options.l) = 50
             /\ Has(node, KEY_WARNING) /\ node[KEY_WARNING] = WARNING_OVERFLOW
        ELSE ~Has(node, KEY_WARNING)

\* C16 amended: a datatype node for which the store reports more than 50
\* entities comes back with the overflow warning and, unless it is a
\* dynamic parameter, with the 50 options of the rows returned, preceded by
\* the option All when the call names a category that is neither display
\* nor rawinput (51 options in all); a dynamic parameter has the one option
\* of its default; with 50 or fewer entities reported no warning is
\* attached.
C16_CapAndWarning ==
    \A node \in FilledDatatypeNodes :
        /\ Reported > 50 =>
               /\ Has(node, KEY_WARNING) /\ node[KEY_WARNING] = WARNING_OVERFLOW
               /\ IF Has(node, KEY_DYNAMIC)
                  THEN node.options.l = <<[name |-> node.default.s,
                                           value |-> node.default]>>
                  ELSE LET options == node.options.l
                           rows == IF Grouping THEN Tail(options) ELSE options
                       IN  /\ Len(rows) = 50
                           /\ \A i \in 1..50 : rows[i].value = StoredRow(i)[3]
                           /\ Grouping => Len(options) = 51
                                           /\ options[1].name = <<"A", "l", "l">>
        /\ Reported <= 50 => ~Has(node, KEY_WARNING)

\* C16 witness: 51 entities were reported to a call that names a category
\* neither display nor rawinput, and a node came back with 51 options and
\* the warning.
C16_Witness ==
    /\ FilledOptions /\ Reported = 51 /\ Grouping
    /\ \E node \in FilledDatatypeNodes :
           /\ ~Has(node, KEY_DYNAMIC)
           /\ Len(node.options.l) = 51
           /\ Has(node, KEY_WARNING)

\* C20: after fill_input_tree_with_options returned, the tree it was handed
\* is what it was before the call, the declared filter of every datatype
\* node included, and the filters the store was asked with are those of a
\* first call on the tree as declared: the declared conditions and
\* visible == true, once.
C20_FillOptionsLeavesFilters ==
    (FilledOptions /\ declared \in StoredTrees) =>
        /\ tree = call.tree0
        /\ call.queries = fill_input_tree_with_options(declared, call.project_id,
                                                       call.category_key).queries

-----------------------------------------------------------------------------
(* Properties of the cut to the checked inputs *)

Selecting == call.op = "select_simulator_inputs"

\* the node is checked in the selection dictionary of the call
Checked(node) ==
    Has(call.data, node.name) /\ call.data[node.name][KEY_PARAMETER_CHECKED]

\* the node is in the selection dictionary of the call, unchecked, and the
\* option holds its saved value and carries attributes
PromotedOption(node, option) ==
    /\ Has(call.data, node.name) /\ ~Checked(node)
    /\ Has(option, "attributes") /\ option.attributes # PyNone
    /\ PyEq(option.value, call.data[node.name][KEY_SAVED_VALUE])

\* C17: for a node of the tree handed in that is unchecked and whose saved
\* value is the value V of an option with attributes, the list handed back
\* does not hold the node and holds every checked attribute of that
\* option, its label being V, one underscore, and the label it had.
C17_PromotedWithOptionPrefix ==
    Selecting =>
        \A i \in 1..Len(call.tree0) :
            LET node == call.tree0[i]
            IN  HasList(node, "options") =>
                    \A j \in 1..Len(node.options.l) :
                        LET option == node.options.l[j]
                        IN  PromotedOption(node, option) =>
                                /\ \A k \in 1..Len(result.l) :
                                       result.l[k].name # node.name
                                /\ \A n \in 1..Len(option.attributes.l) :
                                       LET nested == option.attributes.l[n]
                                       IN  (Checked(nested) /\ Has(nested, "label")) =>
                                               \E k \in 1..Len(result.l) :
                                                   /\ result.l[k].name = nested.name
                                                   /\ result.l[k].label =
                                                          option.value.s \o <<"_">>
                                                              \o nested.label

\* C18: whatever calls were made on the simulator's tree before, a call
\* of select_simulator_inputs hands back what the same call hands back on
\* the tree as it was declared: the same names, labels, defaults and nested
\* options.
C18_SelectKeepsNoState ==
    (Selecting /\ declared \in SimulatorTrees) =>
        result.l = select_simulator_inputs(declared, call.data, <<>>).result

-----------------------------------------------------------------------------
(* Properties of name resolution *)

Looking == call.op = "find_field_submitted_name"

\* the keys the lookup deleted from the submission
Deleted == DOMAIN call.kwargs0 \ DOMAIN kwargs

\* the name of the parent P of the flat name looked up, and the prefix that
\* ends with the marker of its sub-fields
ParentLookedUp == SliceTo(call.flat_name, Find(call.flat_name, KEYWORD_PARAMS))

PrefixLookedUp == Slice(call.flat_name, 0, Find(call.flat_name, KEYWORD_PARAMS) + 12)

\* what may be the field f of the flat name: all that follows the marker,
\* or what follows an option written after the marker
FieldsLookedUp ==
    LET sufix == SliceFrom(call.flat_name, Find(call.flat_name, KEYWORD_PARAMS) + 12)
    IN  {sufix} \cup
        { SliceFrom(sufix, j) : j \in { i \in 8..Len(sufix) - 1 :
                                          /\ StartsWith(sufix, KEYWORD_OPTION)
                                          /\ sufix[i] = "_" } }

\* the option is among those submitted for the parent
SelectedOfParent(option) ==
    LET submitted == compute_submit_option_select(call.kwargs0[ParentLookedUp])
    IN  \E i \in 1..Len(submitted.l) : PyStrOf(submitted.l[i]) = option

\* the key is the key of field f under an option of P that is not selected
UnselectedKeyOf(key, f) ==
    LET head == PrefixLookedUp \o KEYWORD_OPTION
        tail == KEYWORD_SEPARATOR \o f
        option == SubSeq(key, Len(head) + 1, Len(key) - Len(tail))
    IN  /\ Len(key) > Len(head) + Len(tail)
        /\ StartsWith(key, head) /\ EndsWith(key, tail)
        /\ ~SelectedOfParent(option)

\* C21: every key that a lookup with cleaning deletes from the submission
\* is the key of the field looked up under an option of its parent that is
\* not selected; no key under a selected option and no key of another
\* field is deleted.
C21_CleanupDeletesOnlyUnselected ==
    (Looking /\ call.flag) =>
        \A key \in Deleted : \E f \in FieldsLookedUp : UnselectedKeyOf(key, f)

\* C25: a lookup that returns hands back None or a key the submission
\* holds when it returns, its own deletions made; and a lookup without
\* cleaning leaves the submission as it was.
C25_ReturnsSubmittedKey ==
    Looking =>
        /\ result # KeyError => (result = PyNone \/ Has(kwargs, result.s))
        /\ ~call.flag => kwargs = call.kwargs0

\* C25 witness: a lookup with cleaning deleted a key and handed back a key
\* the submission still holds.
C25_Witness ==
    /\ Looking /\ call.flag /\ Deleted # {}
    /\ result.t = "str" /\ result # KeyError /\ Has(kwargs, result.s)

-----------------------------------------------------------------------------
(* Properties of the metadata of loaded entities *)

Loading == call.op = "load_entity"

\* every entity found so far was loaded: no call failed
AllLoaded == \A i \in 1..Len(loads) : loads[i].raised = "none"

\* the entities found so far, in the order of the calls
LoadedEntities == [i \in 1..Len(loads) |-> Store[loads[i].gid]]

\* the subjects noted in metadata_out, in order
SubjectsNoted == Split(metadata_out.subject.s, ",")

\* the subjects of the loaded entities other than the default one
RealSubjects ==
    { LoadedEntities[i].subject : i \in 1..Len(loads) } \ {DEFAULT_SUBJECT}

\* the tag is that of the first loaded entity that has one
FirstTagWins ==
    LET tagged == { i \in 1..Len(loads) : bool_of(LoadedEntities[i].user_tag_1) }
    IN  IF tagged = {} THEN ~Has(metadata_out, "tag_1")
        ELSE /\ Has(metadata_out, "tag_1")
             /\ metadata_out.tag_1
                    = LoadedEntities[CHOOSE i \in tagged : \A j \in tagged : i <= j].user_tag_1

\* the burst is that of the most recently loaded entity that has one
LastBurstWins ==
    LET linked == { i \in 1..Len(loads) : bool_of(LoadedEntities[i].fk_parent_burst) }
    IN  IF linked = {} THEN ~Has(metadata_out, "burst")
        ELSE /\ Has(metadata_out, "burst")
             /\ metadata_out.burst
                    = LoadedEntities[CHOOSE i \in linked : \A j \in linked : j <= i].fk_parent_burst

\* the subject lists every subject of the loaded entities once, without the
\* default subject once an entity with a subject of its own was loaded
SubjectsUnioned ==
    /\ \A i, j \in 1..Len(SubjectsNoted) :
           SubjectsNoted[i] = SubjectsNoted[j] => i = j
    /\ { SubjectsNoted[i] : i \in 1..Len(SubjectsNoted) }
           = IF RealSubjects = {} THEN {DEFAULT_SUBJECT} ELSE RealSubjects

\* C22: after any sequence of successful loads into one metadata_out, the
\* tag is the tag of the first loaded entity that has one, the burst that
\* of the most recent entity that has one, and the subject the comma-joined
\* list of the distinct subjects of the loaded entities, each once, the
\* default subject being absent once a subject other than it was loaded.
C22_MetadataMerge ==
    AllLoaded => (FirstTagWins /\ LastBurstWins /\ SubjectsUnioned)

\* C26: when _load_entity fails with InvalidParameterException, metadata_out
\* is what it was before the call.
C26_RejectedEntityLeavesMetadata ==
    (Loading /\ result = PyStr(<<INVALID_PARAMETER>>)) =>
        metadata_out = call.metadata0

-----------------------------------------------------------------------------
(* Properties of arrays and lists *)

\* the value is an equation structure whose derivation fails: it names no
\* equation type, a class that cannot be imported, or no surface of the
\* store
FailsToDerive(value) ==
    /\ value.t = "dict"
    /\ LET equation_type == dict_get(value, <<"e", "l", "e", "m", "e", "n", "t", "T", "y", "p", "e">>)
           surface_gid == dict_get(value, KEY_SURFACE_GID)
       IN  \/ equation_type = PyNone
           \/ equation_type.s \notin EquationClasses
           \/ ~Has(Store, surface_gid.s)

\* the ARRAY rows of the call that were submitted such a value
FailingArrayRows ==
    { i \in 1..Len(call.tree0) :
          /\ call.tree0[i].type = TYPE_ARRAY
          /\ Has(call.kwargs0, call.tree0[i].name)
          /\ FailsToDerive(call.kwargs0[call.tree0[i].name]) }

\* C23: a call of convert_ui_inputs in which an ARRAY field was submitted an
\* equation structure whose derivation fails does not raise, maps that
\* field to None or to the empty array, and has an entry for every other
\* field submitted, whether or not the ARRAY field declares a range.
C23_EquationFailureNeverAborts ==
    (Converted /\ FailingArrayRows # {}) =>
        /\ result = PyNone
        /\ \A i \in FailingArrayRows :
               /\ Has(kwa, call.tree0[i].name)
               /\ kwa[call.tree0[i].name] \in {PyNone, PyList(<<>>)}
        /\ \A i \in 1..Len(call.tree0) :
               Has(call.kwargs0, call.tree0[i].name) => Has(kwa, call.tree0[i].name)

\* the LIST rows of the call that were submitted a value
SubmittedListRows ==
    { i \in 1..Len(call.tree0) :
          /\ call.tree0[i].type = TYPE_LIST
          /\ Has(call.kwargs0, call.tree0[i].name) }

\* C24: when convert_ui_inputs returns, every LIST field of the submission
\* has an entry in the native kwargs: the sequence itself for a native
\* list, the decoded JSON for a text.
C24_EveryListHasAnEntry ==
    (Converted /\ result = PyNone) =>
        \A i \in SubmittedListRows :
            LET name == call.tree0[i].name
                submitted == call.kwargs0[name]
            IN  /\ Has(kwa, name)
                /\ submitted.t = "list" => kwa[name] = submitted
                /\ submitted.t = "str" => kwa[name] = PyList(<< PyInt(1), PyInt(2) >>)

====
